---- MODULE Spec2Model ----
(***************************************************************************)
(* flunx-channels-api: the synchronization engine between the Evolution    *)
(* provider and the Supabase store.  Every `await` on the store or on the  *)
(* provider is one atomic step of the request that issues it; requests run *)
(* as independent units of work against the shared tables.                 *)
(***************************************************************************)
EXTENDS Integers, Sequences, FiniteSets, TLC

(* ------------------------------ bounds -------------------------------- *)

\* request slots that may be in flight at the same time
NSlots == 2
\* requests started in one behaviour
MaxOps == 2
\* requests started in one behaviour of the one-at-a-time specification
MaxSeqOps == 2
\* requests started in one behaviour of the dispatcher specification
MaxSendOps == 2
\* deliveries started in one behaviour of the webhook specification
MaxHookOps == 2
\* ticks of the wall clock
MaxClock == 2
\* entries of one provider snapshot (contacts, groups, chats)
MaxSnap == 1
\* entries of the contacts snapshot when a sync pass runs alone
MaxSyncSnap == 2
\* channel requests and connection events started in one behaviour
MaxChannelOps == 2


(* --------------------------- value domains ---------------------------- *)

\* JS null / undefined of a string-valued field
Null == "null"
\* JS null / undefined of a numeric field (row id, epoch seconds, instant)
None == 0

IndJid == "551199999999@s.whatsapp.net"
GrpJid == "12036302@g.us"
JIDs == {IndJid, GrpJid}
IndJid2 == "551188888888@s.whatsapp.net"
OwnerJid == "5562999288205@s.whatsapp.net"
PushNames == {Null, "Ana"}
Instance1 == "abc"
Instance2 == "def"

Slots == 1..NSlots

VARIABLES
  inboxes,        \* chat_inboxes: inbox id -> row
  contacts,       \* chat_contacts: sequence of rows, id = index
  conversations,  \* chat_conversations: sequence of rows, id = index
  messages,       \* chat_messages: sequence of rows, id = index
  uniq,           \* does the store's schema declare the uniqueness constraints
  secret,         \* WEBHOOK_SECRET_TOKEN of the deployment, Null when not set
  provider,       \* ids the provider has issued for accepted sends
  instances,      \* names of the instances that exist at the provider
  clock,          \* wall clock, in seconds
  procs,          \* request slot -> the request's kind, position and locals
  started         \* requests started so far

vars ==
  <<inboxes, contacts, conversations, messages, uniq, secret, provider, instances, clock,
    procs, started>>

store == <<inboxes, contacts, conversations, messages>>

\* the deployment: the store's schema and process.env
env == <<uniq, secret>>

\* the provider's side
remote == <<provider, instances>>

(* ----------------------------- pure helpers --------------------------- *)

\* new Date().toISOString(): the processing instant, in milliseconds
Now == clock * 1000

\* new Date(Number(seconds) * 1000).toISOString()
FromEpochSeconds(s) == s * 1000

\* remoteJid.includes("@g.us") / remoteJid.endsWith("@g.us")
IsGroupJid(jid) == jid = GrpJid

\* remoteJid.split("@")[0] / remoteJid.replace(/@.*$/, "")
StripDomain(jid) ==
  CASE jid = IndJid -> "551199999999"
    [] jid = IndJid2 -> "551188888888"
    [] jid = GrpJid -> "12036302"
    [] OTHER -> jid

\* the typed parts of a provider message body
NoPart == [present |-> FALSE, text |-> Null]
Part(t) == [present |-> TRUE, text |-> t]

EmptyBody ==
  [given |-> TRUE, conversation |-> Null, extendedText |-> Null,
   image |-> NoPart, video |-> NoPart, audio |-> NoPart, document |-> NoPart,
   sticker |-> NoPart, contact |-> NoPart, location |-> NoPart]

\* msg.message is undefined
NoBody == [EmptyBody EXCEPT !.given = FALSE]
TextBody(t) == [EmptyBody EXCEPT !.conversation = t]
ImageBody(t) == [EmptyBody EXCEPT !.image = Part(t)]

Truthy(s) == s # Null /\ s # ""
OrEmpty(s) == IF Truthy(s) THEN s ELSE ""

\* the image part is looked at before the texts
extractMessageContentImageFirst(body) ==
  IF ~body.given THEN Null
  ELSE IF body.image.present /\ Truthy(body.image.text) THEN "[Imagem] " \o body.image.text
  ELSE IF body.image.present THEN "[Imagem]"
  ELSE IF Truthy(body.conversation) THEN body.conversation
  ELSE IF Truthy(body.extendedText) THEN body.extendedText
  ELSE IF body.video.present /\ Truthy(body.video.text) THEN "[Vídeo] " \o body.video.text
  ELSE IF body.video.present THEN "[Vídeo]"
  ELSE IF body.audio.present THEN "[Áudio]"
  ELSE IF body.document.present THEN "[Documento] " \o OrEmpty(body.document.text)
  ELSE IF body.sticker.present THEN "[Sticker]"
  ELSE IF body.contact.present THEN "[Contato] " \o OrEmpty(body.contact.text)
  ELSE IF body.location.present THEN "[Localização]"
  ELSE Null

\* the image label always carries the caption, as the document label does
extractMessageContentCaptionJoined(body) ==
  IF ~body.given THEN Null
  ELSE IF Truthy(body.conversation) THEN body.conversation
  ELSE IF Truthy(body.extendedText) THEN body.extendedText
  ELSE IF body.image.present THEN "[Imagem] " \o OrEmpty(body.image.text)
  ELSE IF body.video.present /\ Truthy(body.video.text) THEN "[Vídeo] " \o body.video.text
  ELSE IF body.video.present THEN "[Vídeo]"
  ELSE IF body.audio.present THEN "[Áudio]"
  ELSE IF body.document.present THEN "[Documento] " \o OrEmpty(body.document.text)
  ELSE IF body.sticker.present THEN "[Sticker]"
  ELSE IF body.contact.present THEN "[Contato] " \o OrEmpty(body.contact.text)
  ELSE IF body.location.present THEN "[Localização]"
  ELSE Null

extractMessageContent(body) ==
  IF ~body.given THEN Null
  ELSE IF Truthy(body.conversation) THEN body.conversation
  ELSE IF Truthy(body.extendedText) THEN body.extendedText
  ELSE IF body.image.present /\ Truthy(body.image.text) THEN "[Imagem] " \o body.image.text
  ELSE IF body.image.present THEN "[Imagem]"
  ELSE IF body.video.present /\ Truthy(body.video.text) THEN "[Vídeo] " \o body.video.text
  ELSE IF body.video.present THEN "[Vídeo]"
  ELSE IF body.audio.present THEN "[Áudio]"
  ELSE IF body.document.present THEN "[Documento] " \o OrEmpty(body.document.text)
  ELSE IF body.sticker.present THEN "[Sticker]"
  ELSE IF body.contact.present THEN "[Contato] " \o OrEmpty(body.contact.text)
  ELSE IF body.location.present THEN "[Localização]"
  ELSE Null

(* ------------------------------ the store ----------------------------- *)

Ids(table) == 1..Len(table)

\* .maybeSingle(): the row when exactly one matches, no data otherwise
\* (no match, or the error the client returns when several rows match)
MaybeSingle(S) == IF Cardinality(S) = 1 THEN CHOOSE x \in S : TRUE ELSE None

\* a lookup by remote identifier alone, across inboxes
ContactsWithJid(inbox, jid) == {i \in Ids(contacts) : contacts[i].jid = jid}

\* .eq("inbox_id", ...).eq("remote_jid", ...)
ContactsOf(inbox, jid) ==
  {i \in Ids(contacts) : contacts[i].inbox = inbox /\ contacts[i].jid = jid}

ConversationsOf(inbox, contact) ==
  {i \in Ids(conversations) :
     conversations[i].inbox = inbox /\ conversations[i].contact = contact}

MessagesWithId(id) == {i \in Ids(messages) : messages[i].evoId = id}

InboxesNamed(name) == {i \in DOMAIN inboxes : inboxes[i].instance = name}

\* the store rejects a write that would break a declared uniqueness constraint
ContactInsertOk(inbox, jid) == ~uniq \/ jid = Null \/ ContactsOf(inbox, jid) = {}
ConversationInsertOk(inbox, contact) == ~uniq \/ ConversationsOf(inbox, contact) = {}
MessageIdWriteOk(id, self) == ~uniq \/ id = Null \/ MessagesWithId(id) \subseteq {self}

ContactRow(inbox, jid, name, type) ==
  [inbox |-> inbox, jid |-> jid, name |-> name, type |-> type]

\* a conversation created in another status than open
ConversationRowPending(inbox, contact) ==
  [inbox |-> inbox, contact |-> contact, status |-> "pending", updated_at |-> None]

ConversationRow(inbox, contact) ==
  [inbox |-> inbox, contact |-> contact, status |-> "open", updated_at |-> None]

MessageRow(conv, content, direction, mtype, status, id, participant, created) ==
  [conv |-> conv, content |-> content, direction |-> direction, mtype |-> mtype,
   status |-> status, evoId |-> id, participant |-> participant, created_at |-> created]

(* ------------------------------ requests ------------------------------ *)

NoReq == [tag |-> "none"]

\* no instance info: the fetch was not made, or it failed
NoInfo ==
  [ok |-> FALSE, profileName |-> Null, profilePicUrl |-> Null, ownerJid |-> Null,
   contacts |-> 0, chats |-> 0]

\* connectInstance was not called, or it failed: { success: false, error }
NoConnect == [success |-> FALSE, qrCode |-> Null, connectionStatus |-> Null]

\* the result of one snapshot fetch: { success, contacts | groups | chats }
Fetched(list) == [ok |-> TRUE, list |-> list]
FetchFailed == [ok |-> FALSE, list |-> <<>>]

\* no snapshot was fetched
NoSnap == [contacts |-> FetchFailed, groups |-> FetchFailed, chats |-> FetchFailed]

Idle ==
  [kind |-> "idle", pc |-> "idle", req |-> NoReq, inbox |-> None, contact |-> None,
   conv |-> None, work |-> <<>>, created |-> [contacts |-> 0, conversations |-> 0],
   chats |-> 0, inserted |-> 0, convCount |-> 0, contactCount |-> 0, at |-> None,
   row |-> None, call |-> "none", sent |-> Null, ins |-> "none", info |-> NoInfo,
   snap |-> NoSnap, conn |-> NoConnect, attempt |-> 0, old |-> Null, resp |-> 0]

Active(s) == procs[s].pc \notin {"idle", "done"}

\* a finished request keeps its response and what it returned to the caller
Finish(p, status) ==
  [Idle EXCEPT !.kind = p.kind, !.pc = "done", !.resp = status, !.row = p.row,
               !.call = p.call, !.sent = p.sent, !.created = p.created, !.chats = p.chats,
               !.inserted = p.inserted, !.conv = p.conv, !.ins = p.ins, !.snap = p.snap]

\* the free slot a new request takes
FreeSlot == CHOOSE s \in Slots : ~Active(s) /\ \A t \in Slots : ~Active(t) => s <= t

\* requests overlap freely, up to the number of slots
CanStart == started < MaxOps /\ \E s \in Slots : ~Active(s)

CanStartSend == started < MaxSendOps /\ \E s \in Slots : ~Active(s)

CanStartHook == started < MaxHookOps /\ \E s \in Slots : ~Active(s)

\* the first request of a behaviour
CanStartFirst == started = 0

\* a request starts only when no other is in flight
CanStartAlone == started < MaxSeqOps /\ \A s \in Slots : ~Active(s)

Launch(kind, pc, req) ==
  /\ procs' = [procs EXCEPT ![FreeSlot] = [Idle EXCEPT !.kind = kind, !.pc = pc, !.req = req]]
  /\ started' = started + 1

(* -------------------- webhook: MESSAGES_UPSERT ------------------------ *)

UpsertMsg(inst, jid, fromMe, id, body, pushName, ts, participant) ==
  [tag |-> "msg", inst |-> inst, jid |-> jid, fromMe |-> fromMe, id |-> id,
   body |-> body, pushName |-> pushName, ts |-> ts, participant |-> participant,
   text |-> Null, mtype |-> Null]

\* the echo the provider delivers for a send it accepted
Echoes ==
  {UpsertMsg(Instance1, e.jid, TRUE, e.id, TextBody(e.text), Null, 1, Null) : e \in provider}

\* POST /webhook/evolution with event messages.upsert
WebhookDelivery(can, deliveries) ==
  /\ can
  /\ \E m \in deliveries : Launch("upsert", "wh_inbox", m)
  /\ UNCHANGED <<store, env, remote, clock>>

\* the existence check left out
AfterConversationUnchecked(m) == "wh_msg_ins"

\* after the conversation is resolved: the existence check runs only for a
\* message that carries an external identifier
AfterConversation(m) == IF Truthy(m.id) THEN "wh_msg_sel" ELSE "wh_msg_ins"

\* handleMessagesUpsert: select the inbox, then the per-message guards
WhInbox(s) ==
  LET p == procs[s]
      m == p.req
      found == MaybeSingle(InboxesNamed(m.inst))
  IN /\ p.pc = "wh_inbox"
     /\ procs' = [procs EXCEPT ![s] =
          IF found = None THEN Finish(p, 200)
          ELSE IF m.mtype = "protocolMessage" THEN Finish(p, 200)
          ELSE IF extractMessageContent(m.body) = Null /\ ~m.body.given THEN Finish(p, 200)
          ELSE [p EXCEPT !.inbox = found, !.pc = "wh_contact_sel"]]
     /\ UNCHANGED <<store, env, remote, clock, started>>

\* findOrCreateContact: the lookup; .eq("remote_jid", undefined) matches no row
WhContactSel(s) ==
  LET p == procs[s]
      m == p.req
      existing == IF m.jid = Null THEN None ELSE MaybeSingle(ContactsOf(p.inbox, m.jid))
  IN /\ p.pc = "wh_contact_sel"
     /\ procs' = [procs EXCEPT ![s] =
          IF existing = None THEN [p EXCEPT !.pc = "wh_contact_ins"]
          ELSE IF Truthy(m.pushName) /\ m.pushName # contacts[existing].name
            THEN [p EXCEPT !.contact = existing, !.pc = "wh_contact_upd"]
          ELSE [p EXCEPT !.contact = existing, !.pc = "wh_conv_sel"]]
     /\ UNCHANGED <<store, env, remote, clock, started>>

\* findOrCreateContact: refresh the display name of the contact found
WhContactUpd(s) ==
  LET p == procs[s]
  IN /\ p.pc = "wh_contact_upd"
     /\ contacts' = [contacts EXCEPT ![p.contact].name = p.req.pushName]
     /\ procs' = [procs EXCEPT ![s].pc = "wh_conv_sel"]
     /\ UNCHANGED <<inboxes, conversations, messages, env, remote, clock, started>>

\* findOrCreateContact: create the contact; without pushName and remoteJid
\* remoteJid.split throws, and handleEvolutionWebhook answers 500
WhContactIns(s) ==
  LET p == procs[s]
      m == p.req
      name == IF Truthy(m.pushName) THEN m.pushName ELSE StripDomain(m.jid)
      type == IF IsGroupJid(m.jid) THEN "group" ELSE "individual"
  IN /\ p.pc = "wh_contact_ins"
     /\ IF ~Truthy(m.pushName) /\ m.jid = Null
        THEN /\ contacts' = contacts
             /\ procs' = [procs EXCEPT ![s] = Finish(p, 500)]
        ELSE IF ContactInsertOk(p.inbox, m.jid)
        THEN /\ contacts' = Append(contacts, ContactRow(p.inbox, m.jid, name, type))
             /\ procs' = [procs EXCEPT ![s] =
                  [p EXCEPT !.contact = Len(contacts) + 1, !.pc = "wh_conv_sel"]]
        ELSE /\ contacts' = contacts
             /\ procs' = [procs EXCEPT ![s] = Finish(p, 200)]
     /\ UNCHANGED <<inboxes, conversations, messages, env, remote, clock, started>>

\* findOrCreateConversation: the lookup
WhConvSel(s) ==
  LET p == procs[s]
      existing == MaybeSingle(ConversationsOf(p.inbox, p.contact))
  IN /\ p.pc = "wh_conv_sel"
     /\ procs' = [procs EXCEPT ![s] =
          IF existing = None THEN [p EXCEPT !.pc = "wh_conv_ins"]
          ELSE [p EXCEPT !.conv = existing, !.pc = AfterConversation(p.req)]]
     /\ UNCHANGED <<store, env, remote, clock, started>>

\* findOrCreateConversation: create the conversation
WhConvIns(s) ==
  LET p == procs[s]
  IN /\ p.pc = "wh_conv_ins"
     /\ IF ConversationInsertOk(p.inbox, p.contact)
        THEN /\ conversations' = Append(conversations, ConversationRow(p.inbox, p.contact))
             /\ procs' = [procs EXCEPT ![s] =
                  [p EXCEPT !.conv = Len(conversations) + 1, !.pc = AfterConversation(p.req)]]
        ELSE /\ conversations' = conversations
             /\ procs' = [procs EXCEPT ![s] = Finish(p, 200)]
     /\ UNCHANGED <<inboxes, contacts, messages, env, remote, clock, started>>

\* the existence check by external message identifier
WhMsgSel(s) ==
  LET p == procs[s]
      existing == MaybeSingle(MessagesWithId(p.req.id))
  IN /\ p.pc = "wh_msg_sel"
     /\ procs' = [procs EXCEPT ![s] =
          IF existing # None THEN Finish(p, 200) ELSE [p EXCEPT !.pc = "wh_msg_ins"]]
     /\ UNCHANGED <<store, env, remote, clock, started>>

\* the participant of the event stored on every row, group or not
WebhookMessageRowAnyParticipant(p) ==
  LET m == p.req
      content == extractMessageContent(m.body)
  IN MessageRow(p.conv,
                IF Truthy(content) THEN content ELSE "",
                IF m.fromMe THEN "outgoing" ELSE "incoming",
                IF Truthy(m.mtype) THEN m.mtype ELSE "text",
                IF m.fromMe THEN "sent" ELSE "received",
                IF Truthy(m.id) THEN m.id ELSE Null,
                m.participant,
                IF m.ts # None THEN FromEpochSeconds(m.ts) ELSE Now)

\* the row the webhook path inserts
WebhookMessageRow(p) ==
  LET m == p.req
      content == extractMessageContent(m.body)
  IN MessageRow(p.conv,
                IF Truthy(content) THEN content ELSE "",
                IF m.fromMe THEN "outgoing" ELSE "incoming",
                IF Truthy(m.mtype) THEN m.mtype ELSE "text",
                IF m.fromMe THEN "sent" ELSE "received",
                IF Truthy(m.id) THEN m.id ELSE Null,
                IF IsGroupJid(m.jid) THEN m.participant ELSE Null,
                IF m.ts # None THEN FromEpochSeconds(m.ts) ELSE Now)

\* the insert; its result is not inspected
WhMsgIns(s) ==
  LET p == procs[s]
      ok == MessageIdWriteOk(p.req.id, None)
  IN /\ p.pc = "wh_msg_ins"
     /\ messages' = IF ok THEN Append(messages, WebhookMessageRow(p)) ELSE messages
     /\ procs' = [procs EXCEPT ![s] =
          [p EXCEPT !.ins = IF ok THEN "ok" ELSE "rejected", !.pc = "wh_bump"]]
     /\ UNCHANGED <<inboxes, contacts, conversations, env, remote, clock, started>>

\* the instant the webhook path stores on the conversation after the insert
WebhookBumpInstant(p) == Now

WhBump(s) ==
  LET p == procs[s]
  IN /\ p.pc = "wh_bump"
     /\ conversations' = [conversations EXCEPT ![p.conv].updated_at = WebhookBumpInstant(p)]
     /\ procs' = [procs EXCEPT ![s] = Finish(p, 200)]
     /\ UNCHANGED <<inboxes, contacts, messages, env, remote, clock, started>>

handleMessagesUpsert(s) ==
  \/ WhInbox(s)
  \/ WhContactSel(s)
  \/ WhContactUpd(s)
  \/ WhContactIns(s)
  \/ WhConvSel(s)
  \/ WhConvIns(s)
  \/ WhMsgSel(s)
  \/ WhMsgIns(s)
  \/ WhBump(s)

(* --------------------- POST /inboxes/:inboxId/sync -------------------- *)

\* chats.slice(0, 100)
ChatLimit == 100

Prefix(seq, n) == SubSeq(seq, 1, IF Len(seq) < n THEN Len(seq) ELSE n)

\* one entry of a provider snapshot
SnapEntry(jid, name, last, convTs) ==
  [jid |-> jid, name |-> name, last |-> last, convTs |-> convTs]

\* the calls upsertContactAndConversation receives, in order
WorkItem(src, e, type) ==
  [src |-> src, jid |-> e.jid, hint |-> e.name,
   name |-> IF e.name # Null THEN e.name ELSE StripDomain(e.jid),
   type |-> type, last |-> e.last, convTs |-> e.convTs]

\* the contacts snapshot taken whole
ContactItemsUnfiltered(snap) ==
  LET kept == SelectSeq(snap, LAMBDA e : Truthy(e.jid))
  IN [i \in 1..Len(kept) |-> WorkItem("contact", kept[i], "individual")]

ContactItems(snap) ==
  LET kept == SelectSeq(snap, LAMBDA e : Truthy(e.jid) /\ ~IsGroupJid(e.jid))
  IN [i \in 1..Len(kept) |-> WorkItem("contact", kept[i], "individual")]

GroupItems(snap) ==
  LET kept == SelectSeq(snap, LAMBDA e : IsGroupJid(e.jid))
  IN [i \in 1..Len(kept) |-> WorkItem("group", kept[i], "group")]

\* every entry of the chats snapshot
ChatItemsUnlimited(snap) ==
  LET kept == SelectSeq(snap, LAMBDA e : Truthy(e.jid))
  IN [i \in 1..Len(kept) |->
        WorkItem("chat", kept[i], IF IsGroupJid(kept[i].jid) THEN "group" ELSE "individual")]

ChatItems(snap) ==
  LET limited == SelectSeq(Prefix(snap, ChatLimit), LAMBDA e : Truthy(e.jid))
  IN [i \in 1..Len(limited) |->
        WorkItem("chat", limited[i],
                 IF IsGroupJid(limited[i].jid) THEN "group" ELSE "individual")]

\* the next entry of the loops, or the counters once every entry is done
Advance(p) ==
  LET rest == Tail(p.work)
  IN [p EXCEPT !.work = rest, !.contact = None, !.conv = None, !.at = None,
               !.pc = IF rest = <<>> THEN "sy_count_conv" ELSE "sy_contact_sel"]

\* the instance name left unchecked
SyncReadyConnectedOnly(inbox) == inbox.status = "connected"

\* inbox.connection_status !== "connected" || !inbox.evolution_instance_name
SyncReady(inbox) == inbox.status = "connected" /\ Truthy(inbox.instance)

\* the inbox row and the precondition of a sync
SyInbox(s) ==
  LET p == procs[s]
      inbox == inboxes[p.req.inbox]
  IN /\ p.pc = "sy_inbox"
     /\ procs' = [procs EXCEPT ![s] =
          IF ~SyncReady(inbox) THEN Finish(p, 400)
          ELSE [p EXCEPT !.inbox = p.req.inbox, !.pc = "sy_fetch"]]
     /\ UNCHANGED <<store, env, remote, clock, started>>

\* the entries the three loops go through, in their order
Planned(p, contactList, groupList, chatList) ==
  LET work == ContactItems(contactList) \o GroupItems(groupList) \o ChatItems(chatList)
  IN [p EXCEPT !.work = work,
               !.pc = IF work = <<>> THEN "sy_count_conv" ELSE "sy_contact_sel"]

\* findContacts, fetchAllGroups, findChats: a failed fetch counts as an empty list
SyFetch(s, snapshots) ==
  LET p == procs[s]
  IN /\ p.pc = "sy_fetch"
     /\ \E snap \in snapshots :
          procs' = [procs EXCEPT ![s] = Planned(p, snap.contacts, snap.groups, snap.chats)]
     /\ UNCHANGED <<store, env, remote, clock, started>>

\* no list is taken from any result
LoadedNothing(result) == <<>>

\* findResult.success ? findResult.contacts || [] : []
Loaded(result) == IF result.ok THEN result.list ELSE <<>>

\* the three fetches with their results, which the request keeps
SyFetchResults(s, results) ==
  LET p == procs[s]
  IN /\ p.pc = "sy_fetch"
     /\ \E r \in results :
          procs' = [procs EXCEPT ![s] =
            [Planned(p, Loaded(r.contacts), Loaded(r.groups), Loaded(r.chats))
               EXCEPT !.snap = r]]
     /\ UNCHANGED <<store, env, remote, clock, started>>

\* upsertContactAndConversation: the contact lookup
SyContactSel(s) ==
  LET p == procs[s]
      e == Head(p.work)
      existing == MaybeSingle(ContactsOf(p.inbox, e.jid))
  IN /\ p.pc = "sy_contact_sel"
     /\ procs' = [procs EXCEPT ![s] =
          IF existing = None THEN [p EXCEPT !.pc = "sy_contact_ins"]
          ELSE [p EXCEPT !.contact = existing, !.pc = "sy_contact_upd"]]
     /\ UNCHANGED <<store, env, remote, clock, started>>

\* upsertContactAndConversation: overwrite name and kind of the contact found
SyContactUpd(s) ==
  LET p == procs[s]
      e == Head(p.work)
  IN /\ p.pc = "sy_contact_upd"
     /\ contacts' = [contacts EXCEPT ![p.contact].name = e.name, ![p.contact].type = e.type]
     /\ procs' = [procs EXCEPT ![s].pc = "sy_conv_sel"]
     /\ UNCHANGED <<inboxes, conversations, messages, env, remote, clock, started>>

\* upsertContactAndConversation: create the contact
SyContactIns(s) ==
  LET p == procs[s]
      e == Head(p.work)
  IN /\ p.pc = "sy_contact_ins"
     /\ IF ContactInsertOk(p.inbox, e.jid)
        THEN /\ contacts' = Append(contacts, ContactRow(p.inbox, e.jid, e.name, e.type))
             /\ procs' = [procs EXCEPT ![s] =
                  [p EXCEPT !.contact = Len(contacts) + 1,
                            !.created.contacts = @ + 1, !.pc = "sy_conv_sel"]]
        ELSE /\ contacts' = contacts
             /\ procs' = [procs EXCEPT ![s] = Advance(p)]
     /\ UNCHANGED <<inboxes, conversations, messages, env, remote, clock, started>>

\* the body of a chat's embedded last message: extractMessageContent(message) ?? ...
ChatMessageContent(m) ==
  LET content == extractMessageContent(m.body)
  IN IF content # Null THEN content ELSE m.text

\* what follows the conversation of an entry: nothing for a contact or a group;
\* for a chat its last message, or else its activity timestamp
AfterSyncConversation(p) ==
  LET e == Head(p.work)
  IN IF e.src # "chat" THEN Advance(p)
     ELSE IF e.last.tag = "msg"
       THEN IF Truthy(e.last.id) THEN [p EXCEPT !.pc = "sy_msg_sel"]
            ELSE IF ChatMessageContent(e.last) = Null THEN Advance(p)
            ELSE [p EXCEPT !.pc = "sy_msg_ins"]
     ELSE IF e.convTs # None THEN [p EXCEPT !.pc = "sy_conv_ts"]
     ELSE Advance(p)

\* upsertContactAndConversation: the conversation lookup
SyConvSel(s) ==
  LET p == procs[s]
      existing == MaybeSingle(ConversationsOf(p.inbox, p.contact))
  IN /\ p.pc = "sy_conv_sel"
     /\ procs' = [procs EXCEPT ![s] =
          IF existing = None THEN [p EXCEPT !.pc = "sy_conv_ins"]
          ELSE AfterSyncConversation([p EXCEPT !.conv = existing])]
     /\ UNCHANGED <<store, env, remote, clock, started>>

\* upsertContactAndConversation: create the conversation
SyConvIns(s) ==
  LET p == procs[s]
  IN /\ p.pc = "sy_conv_ins"
     /\ IF ConversationInsertOk(p.inbox, p.contact)
        THEN /\ conversations' = Append(conversations, ConversationRow(p.inbox, p.contact))
             /\ procs' = [procs EXCEPT ![s] =
                  AfterSyncConversation(
                    [p EXCEPT !.conv = Len(conversations) + 1,
                              !.created.conversations = @ + 1])]
        ELSE /\ conversations' = conversations
             /\ procs' = [procs EXCEPT ![s] = Advance(p)]
     /\ UNCHANGED <<inboxes, contacts, messages, env, remote, clock, started>>

\* upsertMessageFromChat: the existence check by external message identifier
SyMsgSel(s) ==
  LET p == procs[s]
      m == Head(p.work).last
      existing == MaybeSingle(MessagesWithId(m.id))
  IN /\ p.pc = "sy_msg_sel"
     /\ procs' = [procs EXCEPT ![s] =
          IF existing # None THEN Advance(p)
          ELSE IF ChatMessageContent(m) = Null THEN Advance(p)
          ELSE [p EXCEPT !.pc = "sy_msg_ins"]]
     /\ UNCHANGED <<store, env, remote, clock, started>>

\* the created_at of a chat's last message
ChatMessageInstant(m) == IF m.ts # None THEN FromEpochSeconds(m.ts) ELSE Now

\* the row the sync path inserts
SyncMessageRow(p) ==
  LET e == Head(p.work)
      m == e.last
      content == ChatMessageContent(m)
  IN MessageRow(p.conv,
                IF Truthy(content) THEN content ELSE "",
                IF m.fromMe THEN "outgoing" ELSE "incoming",
                IF Truthy(m.mtype) THEN m.mtype ELSE "text",
                IF m.fromMe THEN "sent" ELSE "received",
                IF Truthy(m.id) THEN m.id ELSE Null,
                IF IsGroupJid(e.jid) THEN m.participant ELSE Null,
                ChatMessageInstant(m))

\* upsertMessageFromChat: the insert; its result is not inspected
SyMsgIns(s) ==
  LET p == procs[s]
      m == Head(p.work).last
      ok == MessageIdWriteOk(m.id, None)
  IN /\ p.pc = "sy_msg_ins"
     /\ messages' = IF ok THEN Append(messages, SyncMessageRow(p)) ELSE messages
     /\ procs' = [procs EXCEPT ![s] =
          [p EXCEPT !.ins = IF ok THEN "ok" ELSE "rejected",
                    !.at = ChatMessageInstant(m), !.pc = "sy_msg_bump"]]
     /\ UNCHANGED <<inboxes, contacts, conversations, env, remote, clock, started>>

\* upsertMessageFromChat returns true: the activity timestamp and both counters
SyMsgBump(s) ==
  LET p == procs[s]
  IN /\ p.pc = "sy_msg_bump"
     /\ conversations' = [conversations EXCEPT ![p.conv].updated_at = p.at]
     /\ procs' = [procs EXCEPT ![s] =
          Advance([p EXCEPT !.chats = @ + 1, !.inserted = @ + 1])]
     /\ UNCHANGED <<inboxes, contacts, messages, env, remote, clock, started>>

\* a chat without a last message: its activity timestamp
SyConvTs(s) ==
  LET p == procs[s]
      e == Head(p.work)
  IN /\ p.pc = "sy_conv_ts"
     /\ conversations' =
          [conversations EXCEPT ![p.conv].updated_at = FromEpochSeconds(e.convTs)]
     /\ procs' = [procs EXCEPT ![s] = Advance([p EXCEPT !.chats = @ + 1])]
     /\ UNCHANGED <<inboxes, contacts, messages, env, remote, clock, started>>

\* a count that takes the rows of every inbox
RowsOfAnyInbox(table, inbox) == Len(table)

\* select("*", { count: "exact", head: true }).eq("inbox_id", inboxId)
RowsOfInbox(table, inbox) == Cardinality({i \in Ids(table) : table[i].inbox = inbox})

\* the count queries and the write of the counters
SyCountConv(s) ==
  LET p == procs[s]
  IN /\ p.pc = "sy_count_conv"
     /\ procs' = [procs EXCEPT ![s] =
          [p EXCEPT !.pc = "sy_count_contact",
                    !.convCount = RowsOfInbox(conversations, p.inbox)]]
     /\ UNCHANGED <<store, env, remote, clock, started>>

SyCountContact(s) ==
  LET p == procs[s]
  IN /\ p.pc = "sy_count_contact"
     /\ procs' = [procs EXCEPT ![s] =
          [p EXCEPT !.pc = "sy_write",
                    !.contactCount = RowsOfInbox(contacts, p.inbox)]]
     /\ UNCHANGED <<store, env, remote, clock, started>>

SyWrite(s) ==
  LET p == procs[s]
  IN /\ p.pc = "sy_write"
     /\ inboxes' = [inboxes EXCEPT ![p.inbox].contacts_count = p.contactCount,
                                   ![p.inbox].conversations_count = p.convCount]
     /\ procs' = [procs EXCEPT ![s] = Finish(p, 200)]
     /\ UNCHANGED <<contacts, conversations, messages, env, remote, clock, started>>

SyncRequest(can) ==
  /\ can
  /\ \E i \in DOMAIN inboxes : Launch("sync", "sy_inbox", [tag |-> "sync", inbox |-> i])
  /\ UNCHANGED <<store, env, remote, clock>>

syncInbox(s, snapshots) ==
  \/ SyInbox(s)
  \/ SyFetch(s, snapshots)
  \/ SyContactSel(s)
  \/ SyContactUpd(s)
  \/ SyContactIns(s)
  \/ SyConvSel(s)
  \/ SyConvIns(s)
  \/ SyMsgSel(s)
  \/ SyMsgIns(s)
  \/ SyMsgBump(s)
  \/ SyConvTs(s)
  \/ SyCountConv(s)
  \/ SyCountContact(s)
  \/ SyWrite(s)

(* ------------- POST /conversations/:conversationId/messages ----------- *)

SendRequest(can) ==
  /\ can
  /\ \E c \in 1..(Len(conversations) + 1) :
       Launch("send", "se_sel", [tag |-> "send", conv |-> c, text |-> "oi"])
  /\ UNCHANGED <<store, env, remote, clock>>

\* the remote identifier of the contact left unchecked
SendReadyInstanceOnly(inbox, contact) == Truthy(inbox.instance)

\* the conversation with its inbox and contact, and the precondition of a send
SendReady(inbox, contact) == Truthy(inbox.instance) /\ Truthy(contact.jid)

SeSel(s) ==
  LET p == procs[s]
      c == p.req.conv
  IN /\ p.pc = "se_sel"
     /\ procs' = [procs EXCEPT ![s] =
          IF c \notin Ids(conversations) THEN Finish(p, 404)
          ELSE IF ~SendReady(inboxes[conversations[c].inbox], contacts[conversations[c].contact])
            THEN Finish([p EXCEPT !.conv = c], 400)
          ELSE [p EXCEPT !.conv = c, !.inbox = conversations[c].inbox,
                         !.contact = conversations[c].contact, !.pc = "se_ins"]]
     /\ UNCHANGED <<store, env, remote, clock, started>>

\* the row is stored before the provider is called
SeIns(s) ==
  LET p == procs[s]
  IN /\ p.pc = "se_ins"
     /\ messages' = Append(messages,
          MessageRow(p.conv, p.req.text, "outgoing", "text", "sending", Null, Null, Now))
     /\ procs' = [procs EXCEPT ![s] = [p EXCEPT !.row = Len(messages) + 1, !.pc = "se_call"]]
     /\ UNCHANGED <<inboxes, contacts, conversations, env, remote, clock, started>>

\* sendText: the provider accepts and returns key.id, accepts without an id, or fails
SeCall(s) ==
  LET p == procs[s]
      id == "S" \o ToString(Cardinality(provider) + 1)
  IN /\ p.pc = "se_call"
     /\ \/ /\ provider' = provider \cup
                {[id |-> id, jid |-> contacts[p.contact].jid, text |-> p.req.text]}
           /\ procs' = [procs EXCEPT ![s] =
                [p EXCEPT !.call = "ok", !.sent = id, !.pc = "se_upd"]]
        \/ /\ provider' = provider
           /\ \E outcome \in {"noid", "failed"} :
                procs' = [procs EXCEPT ![s] = [p EXCEPT !.call = outcome, !.pc = "se_upd"]]
     /\ UNCHANGED <<store, env, instances, clock, started>>

\* a failed send left in the status the row was inserted with
SendStatusKeepsSending(p) == IF p.call = "ok" /\ Truthy(p.sent) THEN "sent" ELSE "sending"

\* sendResult.success && sendResult.data?.key?.id ? "sent" : "failed"
SendStatus(p) == IF p.call = "ok" /\ Truthy(p.sent) THEN "sent" ELSE "failed"

\* the status update of the row; its result is not inspected
SeUpd(s) ==
  LET p == procs[s]
  IN /\ p.pc = "se_upd"
     /\ messages' = IF MessageIdWriteOk(p.sent, p.row)
                    THEN [messages EXCEPT ![p.row].status = SendStatus(p),
                                          ![p.row].evoId = p.sent]
                    ELSE messages
     /\ procs' = [procs EXCEPT ![s].pc = "se_bump"]
     /\ UNCHANGED <<inboxes, contacts, conversations, env, remote, clock, started>>

\* the activity timestamp touched only after a successful send
SendBumpsOnSuccess(p) == p.call = "ok"

\* does the dispatcher touch the conversation after this send result
SendBumps(p) == TRUE

SeBump(s) ==
  LET p == procs[s]
  IN /\ p.pc = "se_bump"
     /\ conversations' = IF SendBumps(p)
                         THEN [conversations EXCEPT ![p.conv].updated_at = Now]
                         ELSE conversations
     /\ procs' = [procs EXCEPT ![s] = Finish(p, 201)]
     /\ UNCHANGED <<inboxes, contacts, messages, env, remote, clock, started>>

sendMessage(s) ==
  \/ SeSel(s)
  \/ SeIns(s)
  \/ SeCall(s)
  \/ SeUpd(s)
  \/ SeBump(s)

(* -------------------- webhook: CONNECTION_UPDATE ---------------------- *)

StateTokens == {"open", "close", "connecting"}

\* the connection status a state token maps to
ConnectionStatus(state) ==
  IF state \in {"open", "connected", "CONNECTED"} THEN "connected"
  ELSE IF state \in {"close", "disconnected"} THEN "disconnected"
  ELSE "pending"

\* formatBrazilianPhone, on the owner identities of the model
formatBrazilianPhone(jid) ==
  CASE jid = OwnerJid -> "(62) 99928-8205"
    [] jid = Null -> ""
    [] OTHER -> StripDomain(jid)

\* what fetchInstanceInfo may return for a live instance
InstanceInfo ==
  [ok |-> TRUE, profileName |-> "Loja", profilePicUrl |-> "https://pic/1",
   ownerJid |-> OwnerJid, contacts |-> 3, chats |-> 2]

ConnectionEvent(can) ==
  /\ can
  /\ \E t \in StateTokens :
       Launch("conn",
              IF ConnectionStatus(t) = "connected" THEN "co_fetch" ELSE "co_upd",
              [tag |-> "conn", inst |-> Instance1, state |-> t])
  /\ UNCHANGED <<store, env, remote, clock>>

\* the best-effort profile fetch on entry to connected
CoFetch(s) ==
  LET p == procs[s]
  IN /\ p.pc = "co_fetch"
     /\ \E info \in {InstanceInfo, NoInfo} :
          procs' = [procs EXCEPT ![s] = [p EXCEPT !.info = info, !.pc = "co_upd"]]
     /\ UNCHANGED <<store, env, remote, clock, started>>

\* the profile is written whenever the inbox connects
RefreshesAlways(status, info) == status = "connected"

\* connection_status === "connected", infoResult.success && infoResult.data
Refreshes(status, info) == status = "connected" /\ info.ok

\* the stored QR payload survives the entry to connected
StatusWrittenKeepingQr(row, status) == [row EXCEPT !.status = status]

\* updates = { connection_status }, and qr_code = null on connected
StatusWritten(row, status) ==
  IF status = "connected" THEN [row EXCEPT !.status = status, !.qr = Null]
  ELSE [row EXCEPT !.status = status]

\* the profile fields, counters and name taken from the instance info
ProfileWritten(row, info) ==
  [row EXCEPT
     !.profile = info.profileName,
     !.pic = info.profilePicUrl,
     !.jid = info.ownerJid,
     !.phone = formatBrazilianPhone(info.ownerJid),
     !.contacts_count = info.contacts,
     !.conversations_count = info.chats,
     !.name = IF Truthy(info.profileName) /\ Truthy(info.ownerJid)
              THEN info.profileName \o " - " \o formatBrazilianPhone(info.ownerJid)
              ELSE @]

\* the row after the update handleConnectionUpdate issues
ConnectionUpdated(row, status, info) ==
  IF Refreshes(status, info) THEN ProfileWritten(StatusWritten(row, status), info)
  ELSE StatusWritten(row, status)

CoUpd(s) ==
  LET p == procs[s]
      status == ConnectionStatus(p.req.state)
  IN /\ p.pc = "co_upd"
     /\ inboxes' = [i \in DOMAIN inboxes |->
          IF inboxes[i].instance = p.req.inst
          THEN ConnectionUpdated(inboxes[i], status, p.info)
          ELSE inboxes[i]]
     /\ procs' = [procs EXCEPT ![s] = Finish(p, 200)]
     /\ UNCHANGED <<contacts, conversations, messages, env, remote, clock, started>>

handleConnectionUpdate(s) ==
  \/ CoFetch(s)
  \/ CoUpd(s)

(* --------------------- webhook: MESSAGES_UPDATE ----------------------- *)

StatusTokens == {"SERVER_ACK", "DELIVERY_ACK", "READ"}

\* statusMap
StatusOf(token) ==
  CASE token = "DELIVERY_ACK" -> "delivered"
    [] token \in {"READ", "PLAYED"} -> "read"
    [] OTHER -> Null

StatusEvent(can, ids) ==
  /\ can
  /\ \E i \in ids, t \in StatusTokens :
       Launch("status", "mu_upd", [tag |-> "status", id |-> i, status |-> t])
  /\ UNCHANGED <<store, env, remote, clock>>

\* one entry of updates: the rows that carry the identifier take the mapped status
handleMessagesUpdate(s) ==
  LET p == procs[s]
      new == StatusOf(p.req.status)
  IN /\ p.pc = "mu_upd"
     /\ messages' = [i \in Ids(messages) |->
          IF Truthy(p.req.id) /\ new # Null /\ messages[i].evoId = p.req.id
          THEN [messages[i] EXCEPT !.status = new]
          ELSE messages[i]]
     /\ procs' = [procs EXCEPT ![s] = Finish(p, 200)]
     /\ UNCHANGED <<inboxes, contacts, conversations, env, remote, clock, started>>

(* ---------------------- webhook: QRCODE_UPDATED ----------------------- *)

QrRaw == "QR1"
QrDataUrl == "data:image/png;base64,QR2"
\* data.qrcode is an object that carries no base64 member
QrObject == "[object Object]"
QrPayloads == {Null, QrRaw, QrDataUrl, QrObject}

\* qrBase64.startsWith("data:") ? qrBase64 : `data:image/png;base64,${qrBase64}`
AsDataUrl(qr) == IF qr = QrDataUrl THEN qr ELSE "data:image/png;base64," \o qr

handleQRCodeUpdate(s) ==
  LET p == procs[s]
  IN /\ p.pc = "qr_upd"
     /\ inboxes' = [i \in DOMAIN inboxes |->
          IF inboxes[i].instance = p.req.inst
          THEN [inboxes[i] EXCEPT !.qr = AsDataUrl(p.req.qr)]
          ELSE inboxes[i]]
     /\ procs' = [procs EXCEPT ![s] = Finish(p, 200)]
     /\ UNCHANGED <<contacts, conversations, messages, env, remote, clock, started>>

(* ----------------------- POST /webhook/evolution ---------------------- *)

\* String(event).toUpperCase().replace(/\./g, "_")
normalizeEvent(event) ==
  CASE event = "connection.update" -> "CONNECTION_UPDATE"
    [] event = "qrcode.updated" -> "QRCODE_UPDATED"
    [] event = "messages.upsert" -> "MESSAGES_UPSERT"
    [] event = "presence.update" -> "PRESENCE_UPDATE"
    [] OTHER -> event

\* the secret check accepts any token that is supplied
AuthorizedWithAnyToken(token) == ~Truthy(secret) \/ Truthy(token)

\* if (secret) { if (token !== secret) 401 }
Authorized(token) == ~Truthy(secret) \/ token = secret

HookRequest(token, event, data) ==
  [tag |-> "hook", token |-> token, event |-> event, data |-> data]

HookDelivery(can, deliveries) ==
  /\ can
  /\ \E d \in deliveries : Launch("hook", "hk_auth", d)
  /\ UNCHANGED <<store, env, remote, clock>>

\* the handler a delivery is routed to, run up to its first await
Dispatched(p) ==
  LET data == p.req.data
      event == normalizeEvent(p.req.event)
  IN CASE event = "QRCODE_UPDATED" ->
            IF ~Truthy(data.qr) THEN Finish(p, 200)
            ELSE IF data.qr = QrObject THEN Finish(p, 500)
            ELSE [Idle EXCEPT !.kind = "qr", !.pc = "qr_upd", !.req = data]
       [] event = "CONNECTION_UPDATE" ->
            [Idle EXCEPT !.kind = "conn", !.req = data,
                         !.pc = IF ConnectionStatus(data.state) = "connected"
                                THEN "co_fetch" ELSE "co_upd"]
       [] event = "MESSAGES_UPSERT" ->
            [Idle EXCEPT !.kind = "upsert", !.pc = "wh_inbox", !.req = data]
       [] OTHER -> Finish(p, 200)

\* handleEvolutionWebhook: the secret check, then the switch on the event
HkAuth(s) ==
  LET p == procs[s]
  IN /\ p.pc = "hk_auth"
     /\ procs' = [procs EXCEPT ![s] =
          IF Authorized(p.req.token) THEN Dispatched(p) ELSE Finish(p, 401)]
     /\ UNCHANGED <<store, env, remote, clock, started>>

(* ------------------------------- clock -------------------------------- *)

Tick ==
  /\ clock < MaxClock
  /\ clock' = clock + 1
  /\ UNCHANGED <<store, env, remote, procs, started>>

(* --------------------------- specifications --------------------------- *)

Inbox(instance, status) ==
  [instance |-> instance, status |-> status, qr |-> Null, name |-> "Canal",
   profile |-> Null, pic |-> Null, jid |-> Null, phone |-> Null,
   contacts_count |-> 0, conversations_count |-> 0]

\* a paired channel: POST /channels created the inbox and a CONNECTION_UPDATE
\* with state open was handled; nothing is reconciled yet
Paired ==
  /\ inboxes = [i \in {1} |-> Inbox(Instance1, "connected")]
  /\ contacts = <<>>
  /\ conversations = <<>>
  /\ messages = <<>>

Fresh ==
  /\ uniq \in BOOLEAN
  /\ provider = {}
  /\ instances = {inboxes[i].instance : i \in DOMAIN inboxes} \ {Null}
  /\ clock = 1
  /\ procs = [s \in Slots |-> Idle]
  /\ started = 0

\* no webhook secret is configured: every delivery is an authorized one
NoSecret == secret = Null

\* inbound messages of the model
Inbound(jids, ids, names, stamps) ==
  {UpsertMsg(Instance1, j, FALSE, i, TextBody("hi"), n, t, Null) :
     j \in jids, i \in ids, n \in names, t \in stamps}

\* provider snapshots of at most MaxSnap entries each
SeqsUpTo(S, n) == UNION {[1..k -> S] : k \in 0..n}

Snapshots(entries, chats) ==
  [contacts : SeqsUpTo(entries, MaxSnap), groups : SeqsUpTo(entries, MaxSnap),
   chats : SeqsUpTo(chats, MaxSnap)]

\* a channel in use: one inbound message was reconciled; the shared tables also
\* hold a channel row without provider instance and a contact without remote
\* identifier, each with its conversation
Conversing ==
  /\ inboxes = [i \in {1, 2} |->
       IF i = 1 THEN Inbox(Instance1, "connected") ELSE Inbox(Null, "pending")]
  /\ contacts = <<ContactRow(1, IndJid, "Ana", "individual"),
                  ContactRow(2, IndJid, "Ana", "individual"),
                  ContactRow(1, Null, "Ana", "individual")>>
  /\ conversations = <<[ConversationRow(1, 1) EXCEPT !.updated_at = 1000],
                       ConversationRow(2, 2), ConversationRow(1, 3)>>
  /\ messages = <<MessageRow(1, "hi", "incoming", "text", "received", "M1", Null, 1000)>>

(* concurrent ingestion: webhook deliveries, sync passes and sends overlap *)

Init == Paired /\ Fresh /\ NoSecret

Deliveries == Inbound(JIDs, {"M1", Null}, PushNames, {1}) \cup Echoes

SyncSnapshots ==
  Snapshots({SnapEntry(j, Null, NoReq, None) : j \in JIDs},
            {SnapEntry(IndJid, Null, NoReq, t) : t \in {None, 2}}
              \cup {SnapEntry(IndJid, Null, m, None) : m \in Inbound({IndJid}, {"M1"}, {Null}, {1})})

Next ==
  \/ WebhookDelivery(CanStart, Deliveries)
  \/ SyncRequest(CanStart)
  \/ SendRequest(CanStart)
  \/ \E s \in Slots : handleMessagesUpsert(s)
  \/ \E s \in Slots : syncInbox(s, SyncSnapshots)
  \/ \E s \in Slots : sendMessage(s)
  \/ Tick

Spec == Init /\ [][Next]_vars

(* one request at a time: deliveries and sync passes that never overlap *)

InitSeq == Paired /\ Fresh /\ NoSecret

DeliveriesSeq ==
  Inbound(JIDs, {"M1", Null}, PushNames, {None, 1})
    \cup {UpsertMsg(Instance1, IndJid, FALSE, "M1", b, Null, 1, Null) :
            b \in {NoBody, ImageBody("pic")}}

NextSeq ==
  \/ WebhookDelivery(CanStartAlone, DeliveriesSeq)
  \/ SyncRequest(CanStartAlone)
  \/ \E s \in Slots : handleMessagesUpsert(s)
  \/ \E s \in Slots : syncInbox(s, SyncSnapshots)
  \/ Tick

SpecSeq == InitSeq /\ [][NextSeq]_vars

(* the dispatcher: sends overlap with deliveries and connection events *)

InitSend == Conversing /\ Fresh /\ NoSecret

DeliveriesSend == Inbound(JIDs, {"M1"}, {"Bia"}, {1}) \cup Echoes

IssuedIds == {e.id : e \in provider}

NextSend ==
  \/ WebhookDelivery(CanStartSend, DeliveriesSend)
  \/ SendRequest(CanStartSend)
  \/ ConnectionEvent(CanStartSend)
  \/ StatusEvent(CanStartSend, IssuedIds)
  \/ \E s \in Slots : handleMessagesUpsert(s)
  \/ \E s \in Slots : sendMessage(s)
  \/ \E s \in Slots : handleConnectionUpdate(s)
  \/ \E s \in Slots : handleMessagesUpdate(s)
  \/ Tick

SpecSend == InitSend /\ [][NextSend]_vars

(* one delivery of messages.upsert on a paired channel, over every body shape *)

InitExtract == Paired /\ Fresh /\ NoSecret

\* message bodies: every combination of the texts and the typed parts
Bodies ==
  {NoBody} \cup
  [given : {TRUE}, conversation : {Null, "", "hi"}, extendedText : {Null, "ext"},
   image : {NoPart, Part(Null), Part("cap")}, video : {NoPart, Part(Null), Part("cap")},
   audio : {NoPart, Part(Null)}, document : {NoPart, Part(Null), Part("f.pdf")},
   sticker : {NoPart, Part(Null)}, contact : {NoPart, Part("Ze")},
   location : {NoPart, Part(Null)}]

DeliveriesExtract ==
  {UpsertMsg(Instance1, j, FALSE, "M1", b, Null, 1, Null) : j \in JIDs, b \in Bodies}

NextExtract ==
  \/ WebhookDelivery(CanStartFirst, DeliveriesExtract)
  \/ \E s \in Slots : WhInbox(s)
  \/ \E s \in Slots : WhContactSel(s)
  \/ \E s \in Slots : WhContactIns(s)
  \/ \E s \in Slots : WhConvSel(s)
  \/ \E s \in Slots : WhConvIns(s)
  \/ \E s \in Slots : WhMsgSel(s)
  \/ \E s \in Slots : WhMsgIns(s)
  \/ \E s \in Slots : WhBump(s)
  \/ Tick

SpecExtract == InitExtract /\ [][NextExtract]_vars

(* the webhook endpoint: deliveries of every event, with and without a secret *)

\* POST /channels created the inbox; the instance is not paired yet
Unpaired ==
  /\ inboxes = [i \in {1} |-> Inbox(Instance1, "pending")]
  /\ contacts = <<>>
  /\ conversations = <<>>
  /\ messages = <<>>

WebhookSecret == "s3cret"

InitHook == Unpaired /\ Fresh /\ secret \in {Null, WebhookSecret}

HookTokens == {Null, WebhookSecret, "wrong"}

HookStates == {"open", "connected", "CONNECTED", "close", "disconnected", "connecting"}

HookDeliveries ==
  {HookRequest(t, "connection.update", [tag |-> "conn", inst |-> Instance1, state |-> st]) :
     t \in HookTokens, st \in HookStates}
  \cup {HookRequest(t, "qrcode.updated", [tag |-> "qr", inst |-> Instance1, qr |-> q]) :
          t \in HookTokens, q \in QrPayloads}
  \cup {HookRequest(t, "messages.upsert", m) :
          t \in HookTokens,
          m \in Inbound({IndJid}, {"M1"}, {Null}, {1}) \cup Inbound({Null}, {"M1"}, PushNames, {1})}
  \cup {HookRequest(t, "presence.update", NoReq) : t \in HookTokens}

NextHook ==
  \/ HookDelivery(CanStartHook, HookDeliveries)
  \/ \E s \in Slots : HkAuth(s)
  \/ \E s \in Slots : handleQRCodeUpdate(s)
  \/ \E s \in Slots : handleConnectionUpdate(s)
  \/ \E s \in Slots : WhInbox(s)
  \/ \E s \in Slots : WhContactSel(s)
  \/ \E s \in Slots : WhContactIns(s)
  \/ \E s \in Slots : WhConvSel(s)
  \/ \E s \in Slots : WhConvIns(s)
  \/ \E s \in Slots : WhMsgSel(s)
  \/ \E s \in Slots : WhMsgIns(s)
  \/ \E s \in Slots : WhBump(s)

SpecHook == InitHook /\ [][NextHook]_vars

(* a sync pass that runs alone, over snapshots that load or fail *)

SeededInboxes ==
  [i \in {1, 2, 3} |->
     CASE i = 1 -> Inbox(Instance1, "connected")
       [] i = 2 -> Inbox(Instance2, "disconnected")
       [] i = 3 -> Inbox(Null, "connected")]

SeededContacts ==
  <<ContactRow(1, IndJid, "Ana", "individual"), ContactRow(2, IndJid2, "Bia", "individual")>>

\* a connected channel with one reconciled message, a disconnected channel that
\* holds a contact, and a channel row that lost its instance name
Seeded ==
  /\ inboxes = SeededInboxes
  /\ contacts = SeededContacts
  /\ conversations = <<[ConversationRow(1, 1) EXCEPT !.updated_at = 1000]>>
  /\ messages = <<MessageRow(1, "hi", "incoming", "text", "received", "M1", Null, 1000)>>

InitSync == Seeded /\ Fresh /\ NoSecret

ContactEntries ==
  {SnapEntry(IndJid, Null, NoReq, None), SnapEntry(IndJid2, "Bia", NoReq, None),
   SnapEntry(GrpJid, Null, NoReq, None), SnapEntry(Null, "Zed", NoReq, None)}

GroupEntries ==
  {SnapEntry(GrpJid, "Grupo", NoReq, None), SnapEntry(IndJid, Null, NoReq, None)}

\* a chat with its last-activity field only, and a chat with its last message
ChatTs(jid) == SnapEntry(jid, Null, NoReq, 2)
ChatMsg(jid, id) ==
  SnapEntry(jid, Null, UpsertMsg(Instance1, jid, FALSE, id, TextBody("hi"), Null, 1, Null), None)

ThreeChats == <<ChatTs(IndJid), ChatMsg(IndJid2, "M2"), ChatMsg(GrpJid, "M3")>>

\* one chat more than the sync takes; the last one names an identifier of its own
LongChats ==
  [i \in 1..(ChatLimit + 1) |->
     IF i <= ChatLimit THEN ChatMsg(IndJid, Null) ELSE ChatMsg(IndJid2, Null)]

ChatLists ==
  SeqsUpTo({ChatTs(IndJid), ChatMsg(GrpJid, "M2"), ChatTs(Null)}, MaxSnap) \cup {ThreeChats}

Results(lists) == {FetchFailed} \cup {Fetched(l) : l \in lists}

SyncResults ==
  [contacts : Results(SeqsUpTo(ContactEntries, MaxSyncSnap)),
   groups : Results(SeqsUpTo(GroupEntries, MaxSnap)),
   chats : Results(ChatLists)]
  \cup [contacts : Results({<<>>}), groups : Results({<<>>}), chats : {Fetched(LongChats)}]

NextSync ==
  \/ SyncRequest(CanStartFirst)
  \/ \E s \in Slots : SyInbox(s)
  \/ \E s \in Slots : SyFetchResults(s, SyncResults)
  \/ \E s \in Slots : SyContactSel(s)
  \/ \E s \in Slots : SyContactUpd(s)
  \/ \E s \in Slots : SyContactIns(s)
  \/ \E s \in Slots : SyConvSel(s)
  \/ \E s \in Slots : SyConvIns(s)
  \/ \E s \in Slots : SyMsgSel(s)
  \/ \E s \in Slots : SyMsgIns(s)
  \/ \E s \in Slots : SyMsgBump(s)
  \/ \E s \in Slots : SyConvTs(s)
  \/ \E s \in Slots : SyCountConv(s)
  \/ \E s \in Slots : SyCountContact(s)
  \/ \E s \in Slots : SyWrite(s)

SpecSync == InitSync /\ [][NextSync]_vars

(* -------------------------- channel management ------------------------ *)

\* `flunx-${slug}-${randomId()}`: a name no earlier request was given
FreshName == "flunx-" \o ToString(started + 1)

\* what GET /instance/connect may answer
ConnectResponses ==
  [ok : BOOLEAN, base64 : {Null, QrDataUrl}, state : {Null, "connecting", "open"}]

\* connectInstance: the QR payload and the state the provider reports, as reported
connectInstance(response) ==
  IF ~response.ok THEN NoConnect
  ELSE [success |-> TRUE, qrCode |-> response.base64,
        connectionStatus |-> IF Truthy(response.state) THEN response.state ELSE "pending"]

\* createInstance: created, refused with status 409, or failed
CreateOutcomes == {"ok", "conflict", "failed"}

\* deleteInstance: the instance is gone when the provider accepts the call
Deleted(name, ok) == IF ok THEN instances \ {name} ELSE instances

NextInboxId == Cardinality(DOMAIN inboxes) + 1

\* POST /channels
CreateRequest(can) ==
  /\ can
  /\ Launch("create", "ch_create", [tag |-> "create", name |-> FreshName])
  /\ UNCHANGED <<store, env, remote, clock>>

ChCreate(s) ==
  LET p == procs[s]
  IN /\ p.pc = "ch_create"
     /\ \E outcome \in CreateOutcomes :
          IF outcome = "ok"
          THEN /\ instances' = instances \cup {p.req.name}
               /\ procs' = [procs EXCEPT ![s].pc = "ch_webhook"]
          ELSE /\ instances' = instances
               /\ procs' = [procs EXCEPT ![s] = Finish(p, 502)]
     /\ UNCHANGED <<store, env, provider, clock, started>>

\* setWebhook: on failure the instance is to be deleted
ChWebhook(s) ==
  LET p == procs[s]
  IN /\ p.pc = "ch_webhook"
     /\ \E ok \in BOOLEAN :
          procs' = [procs EXCEPT ![s].pc = IF ok THEN "ch_insert" ELSE "ch_rollback"]
     /\ UNCHANGED <<store, env, remote, clock, started>>

\* the insert of the inbox row, in status pending
ChInsert(s) ==
  LET p == procs[s]
      id == NextInboxId
  IN /\ p.pc = "ch_insert"
     /\ \E ok \in BOOLEAN :
          IF ok
          THEN /\ inboxes' = [i \in DOMAIN inboxes \cup {id} |->
                    IF i = id THEN Inbox(p.req.name, "pending") ELSE inboxes[i]]
               /\ procs' = [procs EXCEPT ![s] = [p EXCEPT !.inbox = id, !.pc = "ch_connect"]]
          ELSE /\ inboxes' = inboxes
               /\ procs' = [procs EXCEPT ![s].pc = "ch_rollback"]
     /\ UNCHANGED <<contacts, conversations, messages, env, remote, clock, started>>

\* await deleteInstance(instanceName), whose result is not inspected; then 500
ChRollback(s) ==
  LET p == procs[s]
  IN /\ p.pc = "ch_rollback"
     /\ \E ok \in BOOLEAN : instances' = Deleted(p.req.name, ok)
     /\ procs' = [procs EXCEPT ![s] = Finish(p, 500)]
     /\ UNCHANGED <<store, env, provider, clock, started>>

ChConnect(s) ==
  LET p == procs[s]
  IN /\ p.pc = "ch_connect"
     /\ \E response \in ConnectResponses :
          LET result == connectInstance(response)
          IN procs' = [procs EXCEPT ![s] =
               IF Truthy(result.qrCode) THEN [p EXCEPT !.conn = result, !.pc = "ch_qr"]
               ELSE Finish([p EXCEPT !.conn = result], 201)]
     /\ UNCHANGED <<store, env, remote, clock, started>>

ChQr(s) ==
  LET p == procs[s]
  IN /\ p.pc = "ch_qr"
     /\ inboxes' = [inboxes EXCEPT ![p.inbox].qr = p.conn.qrCode]
     /\ procs' = [procs EXCEPT ![s] = Finish(p, 201)]
     /\ UNCHANGED <<contacts, conversations, messages, env, remote, clock, started>>

createChannel(s) ==
  \/ ChCreate(s)
  \/ ChWebhook(s)
  \/ ChInsert(s)
  \/ ChRollback(s)
  \/ ChConnect(s)
  \/ ChQr(s)

\* a request that names an inbox id, stored or not
InboxRequest(can, kind, pc) ==
  /\ can
  /\ \E i \in 1..NextInboxId :
       Launch(kind, pc, [tag |-> kind, inbox |-> i, name |-> FreshName])
  /\ UNCHANGED <<store, env, remote, clock>>

\* the select of the inbox row by id; 404 when there is none
InboxSelected(p, pc) ==
  IF p.req.inbox \notin DOMAIN inboxes THEN Finish(p, 404)
  ELSE [p EXCEPT !.inbox = p.req.inbox, !.old = inboxes[p.req.inbox].instance, !.pc = pc]

\* GET /channels/:id/info
InSel(s) ==
  LET p == procs[s]
  IN /\ p.pc = "in_sel"
     /\ procs' = [procs EXCEPT ![s] = InboxSelected(p, "in_fetch")]
     /\ UNCHANGED <<store, env, remote, clock, started>>

\* what fetchInstanceInfo may return, with instance.state
ChannelInfo(state) ==
  [ok |-> TRUE, state |-> state, profileName |-> "Loja", profilePicUrl |-> "https://pic/1",
   ownerJid |-> OwnerJid, contacts |-> 3, chats |-> 2]

InFetch(s) ==
  LET p == procs[s]
  IN /\ p.pc = "in_fetch"
     /\ \/ procs' = [procs EXCEPT ![s] = Finish(p, 200)]
        \/ \E state \in {Null, "open", "close", "connecting"} :
             procs' = [procs EXCEPT ![s] =
               [p EXCEPT !.info = ChannelInfo(state), !.pc = "in_upd"]]
     /\ UNCHANGED <<store, env, remote, clock, started>>

\* "pending", "connected" on open, "disconnected" on close
InfoStatus(state) ==
  IF state = "open" THEN "connected"
  ELSE IF state = "close" THEN "disconnected"
  ELSE "pending"

InUpd(s) ==
  LET p == procs[s]
      info == p.info
  IN /\ p.pc = "in_upd"
     /\ inboxes' = [inboxes EXCEPT ![p.inbox] =
          [@ EXCEPT !.status = InfoStatus(info.state),
                    !.profile = info.profileName,
                    !.pic = info.profilePicUrl,
                    !.phone = formatBrazilianPhone(info.ownerJid),
                    !.jid = info.ownerJid,
                    !.contacts_count = info.contacts,
                    !.conversations_count = info.chats]]
     /\ procs' = [procs EXCEPT ![s] = Finish(p, 200)]
     /\ UNCHANGED <<contacts, conversations, messages, env, remote, clock, started>>

channelInfo(s) ==
  \/ InSel(s)
  \/ InFetch(s)
  \/ InUpd(s)

\* GET /channels/:inboxId/qrcode
GqSel(s) ==
  LET p == procs[s]
  IN /\ p.pc = "gq_sel"
     /\ procs' = [procs EXCEPT ![s] = InboxSelected(p, "gq_state")]
     /\ UNCHANGED <<store, env, remote, clock, started>>

\* getConnectionState: "connected", "pending", or "error" when the call fails
GqState(s) ==
  LET p == procs[s]
  IN /\ p.pc = "gq_state"
     /\ \E state \in {"connected", "pending", "error"} :
          procs' = [procs EXCEPT ![s] =
            IF state = "connected" THEN Finish(p, 200) ELSE [p EXCEPT !.pc = "gq_connect"]]
     /\ UNCHANGED <<store, env, remote, clock, started>>

GqConnect(s) ==
  LET p == procs[s]
  IN /\ p.pc = "gq_connect"
     /\ \E response \in ConnectResponses :
          LET result == connectInstance(response)
          IN procs' = [procs EXCEPT ![s] =
               IF Truthy(result.qrCode) THEN [p EXCEPT !.conn = result, !.pc = "gq_write"]
               ELSE Finish([p EXCEPT !.conn = result], 200)]
     /\ UNCHANGED <<store, env, remote, clock, started>>

GqWrite(s) ==
  LET p == procs[s]
  IN /\ p.pc = "gq_write"
     /\ inboxes' = [inboxes EXCEPT ![p.inbox].qr = p.conn.qrCode]
     /\ procs' = [procs EXCEPT ![s] = Finish(p, 200)]
     /\ UNCHANGED <<contacts, conversations, messages, env, remote, clock, started>>

channelQrcode(s) ==
  \/ GqSel(s)
  \/ GqState(s)
  \/ GqConnect(s)
  \/ GqWrite(s)

\* POST /channels/:id/reconnect
RcSel(s) ==
  LET p == procs[s]
      q == InboxSelected(p, "rc_logout")
  IN /\ p.pc = "rc_sel"
     /\ procs' = [procs EXCEPT ![s] =
          IF q.pc = "rc_logout" /\ ~Truthy(q.old) THEN [q EXCEPT !.pc = "rc_create"] ELSE q]
     /\ UNCHANGED <<store, env, remote, clock, started>>

\* logoutInstance: the instance stays at the provider
RcLogout(s) ==
  LET p == procs[s]
  IN /\ p.pc = "rc_logout"
     /\ procs' = [procs EXCEPT ![s].pc = "rc_delete"]
     /\ UNCHANGED <<store, env, remote, clock, started>>

RcDelete(s) ==
  LET p == procs[s]
  IN /\ p.pc = "rc_delete"
     /\ \E ok \in BOOLEAN : instances' = Deleted(p.old, ok)
     /\ procs' = [procs EXCEPT ![s].pc = "rc_create"]
     /\ UNCHANGED <<store, env, provider, clock, started>>

\* attempts at createInstance before the request gives up
MaxAttempts == 3

\* one attempt of the loop: a 409 goes to the next candidate name
RcCreate(s) ==
  LET p == procs[s]
  IN /\ p.pc = "rc_create"
     /\ \E outcome \in CreateOutcomes :
          CASE outcome = "ok" ->
                 /\ instances' = instances \cup {p.req.name}
                 /\ procs' = [procs EXCEPT ![s].pc = "rc_connect"]
            [] outcome = "conflict" ->
                 /\ instances' = instances
                 /\ procs' = [procs EXCEPT ![s] =
                      IF p.attempt + 1 < MaxAttempts THEN [p EXCEPT !.attempt = @ + 1]
                      ELSE Finish(p, 502)]
            [] OTHER ->
                 /\ instances' = instances
                 /\ procs' = [procs EXCEPT ![s] = Finish(p, 502)]
     /\ UNCHANGED <<store, env, provider, clock, started>>

RcConnect(s) ==
  LET p == procs[s]
  IN /\ p.pc = "rc_connect"
     /\ \E response \in ConnectResponses :
          procs' = [procs EXCEPT ![s] =
            [p EXCEPT !.conn = connectInstance(response), !.pc = "rc_webhook"]]
     /\ UNCHANGED <<store, env, remote, clock, started>>

RcWebhook(s) ==
  LET p == procs[s]
  IN /\ p.pc = "rc_webhook"
     /\ \E ok \in BOOLEAN :
          procs' = [procs EXCEPT ![s].pc = IF ok THEN "rc_upd" ELSE "rc_rollback"]
     /\ UNCHANGED <<store, env, remote, clock, started>>

RcRollback(s) ==
  LET p == procs[s]
  IN /\ p.pc = "rc_rollback"
     /\ \E ok \in BOOLEAN : instances' = Deleted(p.req.name, ok)
     /\ procs' = [procs EXCEPT ![s] = Finish(p, 500)]
     /\ UNCHANGED <<store, env, provider, clock, started>>

\* inbox.name.split(" - ")[0], on the names of the model
BaseName(name) == IF name = "Loja - (62) 99928-8205" THEN "Loja" ELSE name

\* connectResult.connectionStatus ?? "pending"
ReconnectStatus(result) ==
  IF result.connectionStatus # Null THEN result.connectionStatus ELSE "pending"

\* the row after the update a reconnect ends with
Reconnected(row, name, result) ==
  [row EXCEPT !.instance = name, !.status = ReconnectStatus(result), !.qr = result.qrCode,
              !.profile = Null, !.pic = Null, !.phone = Null, !.jid = Null,
              !.contacts_count = 0, !.conversations_count = 0, !.name = BaseName(@)]

RcUpd(s) ==
  LET p == procs[s]
  IN /\ p.pc = "rc_upd"
     /\ inboxes' = [inboxes EXCEPT ![p.inbox] = Reconnected(@, p.req.name, p.conn)]
     /\ procs' = [procs EXCEPT ![s] = Finish(p, 200)]
     /\ UNCHANGED <<contacts, conversations, messages, env, remote, clock, started>>

reconnectChannel(s) ==
  \/ RcSel(s)
  \/ RcLogout(s)
  \/ RcDelete(s)
  \/ RcCreate(s)
  \/ RcConnect(s)
  \/ RcWebhook(s)
  \/ RcRollback(s)
  \/ RcUpd(s)

(* channel requests and connection events, one at a time *)

CanStartChannel == started < MaxChannelOps /\ \A s \in Slots : ~Active(s)

InitChannel == Unpaired /\ Fresh /\ NoSecret

NextChannel ==
  \/ CreateRequest(CanStartChannel)
  \/ InboxRequest(CanStartChannel, "info", "in_sel")
  \/ InboxRequest(CanStartChannel, "qrcode", "gq_sel")
  \/ InboxRequest(CanStartChannel, "reconnect", "rc_sel")
  \/ ConnectionEvent(CanStartChannel)
  \/ \E s \in Slots : createChannel(s)
  \/ \E s \in Slots : channelInfo(s)
  \/ \E s \in Slots : channelQrcode(s)
  \/ \E s \in Slots : reconnectChannel(s)
  \/ \E s \in Slots : handleConnectionUpdate(s)

SpecChannel == InitChannel /\ [][NextChannel]_vars

(* ------------------------------ properties ---------------------------- *)

\* the message a reconciler is working on: the delivered one, or the last message
\* of the chat entry a sync pass is at
Reconciling(p) ==
  IF p.kind = "upsert" THEN [id |-> p.req.id, jid |-> p.req.jid]
  ELSE IF p.kind = "sync" /\ p.work # <<>> /\ Head(p.work).last.tag = "msg"
    THEN [id |-> Head(p.work).last.id, jid |-> Head(p.work).jid]
  ELSE [id |-> Null, jid |-> Null]

\* a stored message carries the identifier, in the conversation of that remote identifier
StoredUnder(id, jid) ==
  \E i \in MessagesWithId(id) : contacts[conversations[messages[i].conv].contact].jid = jid

OneRowPerId ==
  \A i, j \in Ids(messages) :
    i # j /\ messages[i].evoId # Null => messages[i].evoId # messages[j].evoId

\* the slot whose request takes this step
Steps(s) == Active(s) /\ procs'[s] # procs[s]

C1_NoInsertWhenStored ==
  \A s \in Slots :
    LET r == Reconciling(procs[s])
    IN Steps(s) /\ Truthy(r.id) /\ MessagesWithId(r.id) # {}
       => /\ Len(messages') = Len(messages)
          /\ StoredUnder(r.id, r.jid)
               => Len(contacts') = Len(contacts) /\ Len(conversations') = Len(conversations)

\* C1: when deliveries and sync passes run one after another, no step of a
\* reconciler whose message's external identifier is already stored adds a message
\* row (nor a contact or a conversation when the message is stored for the same
\* remote identifier), and every stored identifier is carried by exactly one row.
C1_SequentialIdempotence == []OneRowPerId /\ [][C1_NoInsertWhenStored]_vars

\* a second delivery of a stored message ended at the existence check
C1_Witness ==
  \E s \in Slots :
    /\ procs[s].kind = "upsert" /\ procs[s].pc = "done"
    /\ procs[s].conv # None /\ procs[s].ins = "none"
    /\ Cardinality(MessagesWithId("M1")) = 1
    /\ Len(contacts) = 1 /\ Len(conversations) = 1 /\ started >= 2

\* C2: in every reachable state, under any interleaving of webhook deliveries,
\* sync passes and sends, no two message rows carry the same non-null external
\* message identifier.
C2_UniqueExternalIds == OneRowPerId

\* C3: a reconciler whose insert the store rejected for the uniqueness of the
\* external identifier ends as the idempotent skip does: no message row, a success
\* response, and neither the conversation's activity timestamp nor the inserted /
\* processed counters of the sync pass change.
C3_RejectedInsertIsSkip ==
  [][\A s \in Slots :
       Steps(s) /\ procs[s].pc \in {"wh_bump", "sy_msg_bump"} /\ procs[s].ins = "rejected"
       => /\ messages' = messages
          /\ conversations' = conversations
          /\ procs'[s].inserted = procs[s].inserted
          /\ procs'[s].chats = procs[s].chats
          /\ procs'[s].pc = "done" => procs'[s].resp = 200]_vars

\* C4: in every reachable state an inbox holds at most one contact per remote
\* identifier.
C4_UniqueContacts ==
  \A i, j \in Ids(contacts) :
    i # j /\ contacts[i].inbox = contacts[j].inbox /\ contacts[i].jid # Null
    => contacts[i].jid # contacts[j].jid

\* C5: in every reachable state there is at most one conversation per
\* (inbox, contact) pair.
C5_UniqueConversations ==
  \A i, j \in Ids(conversations) :
    i # j /\ conversations[i].inbox = conversations[j].inbox
    => conversations[i].contact # conversations[j].contact

\* a finished send whose provider call failed or returned no identifier
FailedSend(p) ==
  p.kind = "send" /\ p.pc = "done" /\ p.resp = 201 /\ p.call \in {"noid", "failed"}

C6_FailedRow ==
  \A s \in Slots :
    FailedSend(procs[s])
    => /\ procs[s].row \in Ids(messages)
       /\ messages[procs[s].row].conv = procs[s].conv
       /\ messages[procs[s].row].direction = "outgoing"
       /\ messages[procs[s].row].status = "failed"
       /\ messages[procs[s].row].evoId = Null

C6_Durable ==
  /\ \A i \in Ids(messages) :
       /\ i \in Ids(messages')
       /\ messages[i].status = "failed" => messages'[i] = messages[i]
  /\ \A s \in Slots :
       Steps(s) /\ procs[s].kind = "send" /\ procs[s].row # None
       => Len(messages') = Len(messages)

\* C6: after a send whose provider call fails or returns no identifier, the row
\* the request inserted is outgoing, failed and without external identifier; the
\* request inserts no second row, no row is ever removed and a failed row is never
\* changed again.
C6_OutboundFailureDurable == []C6_FailedRow /\ [][C6_Durable]_vars

C6_Witness ==
  \E s \in Slots :
    /\ FailedSend(procs[s]) /\ procs[s].call = "failed"
    /\ messages[procs[s].row].status = "failed"
    /\ \E t \in Slots : t # s /\ procs[t].kind = "upsert" /\ procs[t].pc = "done"

\* C7: the row is stored with status sending before the provider is called, and
\* the update that follows a provider success with an identifier leaves the row
\* with status sent and that identifier; after the update the row is sent exactly
\* when it carries an identifier.
C7_OutboundSuccess ==
  [][\A s \in Slots :
       /\ Steps(s) /\ procs[s].pc = "se_call"
            => /\ procs[s].row \in Ids(messages)
               /\ messages[procs[s].row].status = "sending"
       /\ Steps(s) /\ procs[s].pc = "se_upd"
            => /\ procs[s].call = "ok"
                  => /\ messages'[procs[s].row].status = "sent"
                     /\ messages'[procs[s].row].evoId = procs[s].sent
               /\ messages'[procs[s].row].status = "sent"
                  <=> messages'[procs[s].row].evoId # Null]_vars

\* the conversation a send request names is not ready for sending
NotReady(c) ==
  /\ c \in Ids(conversations)
  /\ \/ ~Truthy(inboxes[conversations[c].inbox].instance)
     \/ ~Truthy(contacts[conversations[c].contact].jid)

\* C8: a send on a conversation whose inbox has no provider instance name, or whose
\* contact has no remote identifier, ends with the precondition error (400) in its
\* first step, and no step of it writes a message row, calls the provider or
\* changes a conversation.
C8_SendPrecondition ==
  [][\A s \in Slots :
       Steps(s) /\ procs[s].kind = "send" /\ NotReady(procs[s].req.conv)
       => /\ procs'[s].pc = "done" /\ procs'[s].resp = 400
          /\ procs'[s].row = None /\ procs'[s].call = "none"
          /\ messages' = messages
          /\ provider' = provider
          /\ conversations' = conversations]_vars

C8_Witness ==
  \E s \in Slots :
    /\ procs[s].kind = "send" /\ procs[s].pc = "done" /\ procs[s].resp = 400
    /\ NotReady(procs[s].conv)
    /\ Len(messages) = 1 /\ provider = {}

\* C9: a send on a conversation whose inbox is disconnected is rejected in its
\* first step as a precondition violation, before any row is written or the
\* provider is called.
C9_DisconnectedRejected ==
  [][\A s \in Slots :
       /\ Steps(s) /\ procs[s].pc = "se_sel"
       /\ procs[s].req.conv \in Ids(conversations)
       /\ inboxes[conversations[procs[s].req.conv].inbox].status = "disconnected"
       => procs'[s].pc = "done" /\ procs'[s].resp = 400]_vars

\* C10: a send request that inserted its row completes only through the step that
\* sets the conversation's activity timestamp to the processing instant, whatever
\* the provider call returned.
C10_BumpAfterInsert ==
  [][\A s \in Slots :
       /\ procs[s].kind = "send" /\ procs[s].row # None
       /\ procs[s].pc # "done" /\ procs'[s].pc = "done"
       => /\ procs[s].pc = "se_bump"
          /\ conversations'[procs[s].conv].updated_at = Now]_vars

C10_Witness ==
  \E s \in Slots :
    /\ FailedSend(procs[s])
    /\ clock = 2
    /\ conversations[procs[s].conv].updated_at = Now

\* the state tokens of a live session
LiveTokens == {"open", "connected", "CONNECTED"}

\* the inbox rows a connection event addresses
Addressed(p) == {i \in DOMAIN inboxes : inboxes[i].instance = p.req.inst}

\* C11: the update of a connection event that carries a live-session token leaves
\* a pending inbox connected with no stored QR payload, whatever payload it held.
C11_LiveEventConnects ==
  [][\A s \in Slots :
       Steps(s) /\ procs[s].pc = "co_upd" /\ procs[s].req.state \in LiveTokens
       => \A i \in Addressed(procs[s]) :
            inboxes[i].status = "pending"
            => inboxes'[i].status = "connected" /\ inboxes'[i].qr = Null]_vars

\* a QR payload was stored, then a live-session event connected the inbox
C11_Witness ==
  \E s, t \in Slots :
    /\ procs[s].kind = "qr" /\ procs[s].pc = "done"
    /\ procs[t].kind = "conn" /\ procs[t].pc = "done"
    /\ inboxes[1].status = "connected" /\ inboxes[1].qr = Null

\* C12: the update of a connection event whose token is not a live-session token
\* sets the inbox to disconnected, and no connection event takes an inbox that is
\* connected or disconnected to pending.
C12_NonLiveDisconnects ==
  [][\A s \in Slots :
       Steps(s) /\ procs[s].pc = "co_upd"
       => \A i \in Addressed(procs[s]) :
            /\ procs[s].req.state \notin LiveTokens => inboxes'[i].status = "disconnected"
            /\ inboxes[i].status # "pending" => inboxes'[i].status # "pending"]_vars

\* C13: when the profile fetch of a live-session event failed, the update changes
\* the inbox's status to connected and clears its QR payload, and nothing else of
\* the row (profile fields, counters, name).
C13_FetchFailureStillConnects ==
  [][\A s \in Slots :
       /\ Steps(s) /\ procs[s].pc = "co_upd"
       /\ procs[s].req.state \in LiveTokens /\ ~procs[s].info.ok
       => \A i \in Addressed(procs[s]) :
            inboxes'[i] = [inboxes[i] EXCEPT !.status = "connected", !.qr = Null]]_vars

\* an inbox connected by a live-session event although no profile was ever fetched
C13_Witness ==
  \E s \in Slots :
    /\ procs[s].kind = "conn" /\ procs[s].pc = "done"
    /\ inboxes[1].status = "connected" /\ inboxes[1].qr = Null
    /\ inboxes[1].profile = Null /\ inboxes[1].jid = Null
    /\ inboxes[1].contacts_count = 0 /\ inboxes[1].name = "Canal"

\* C14: every processing step of an authorized delivery runs after the success
\* acknowledgment was sent, and an authorized delivery never ends with another
\* response than the success acknowledgment.
C14_AckBeforeProcessing ==
  [][\A s \in Slots :
       /\ Steps(s) /\ procs[s].kind \in {"qr", "conn", "upsert"} => procs[s].resp = 200
       /\ Steps(s) /\ procs'[s].pc = "done"
            /\ (procs[s].pc = "hk_auth" => Authorized(procs[s].req.token))
            => procs'[s].resp = 200]_vars

\* C15: with a secret configured, a delivery whose token differs from it ends in
\* its first step with 401, and that step touches neither the store nor the
\* provider and routes to no handler.
C15_UnauthorizedRejected ==
  [][\A s \in Slots :
       /\ Steps(s) /\ procs[s].pc = "hk_auth"
       /\ Truthy(secret) /\ procs[s].req.token # secret
       => /\ procs'[s].pc = "done" /\ procs'[s].resp = 401 /\ procs'[s].kind = "hook"
          /\ store' = store
          /\ provider' = provider]_vars

\* a delivery was rejected while the inbox it names is still as created
C15_Witness ==
  \E s \in Slots :
    /\ procs[s].kind = "hook" /\ procs[s].pc = "done" /\ procs[s].resp = 401
    /\ Truthy(secret) /\ started = MaxHookOps
    /\ inboxes[1] = Inbox(Instance1, "pending") /\ messages = <<>>

\* the step inserts a message row
Inserts(s) ==
  /\ Steps(s) /\ procs[s].pc \in {"wh_msg_ins", "sy_msg_ins"}
  /\ Len(messages') = Len(messages) + 1

\* the row that was inserted last
LastRow(table) == table[Len(table)]

\* the provider message a reconciler step works on
Reconciled(p) == IF p.kind = "upsert" THEN p.req ELSE Head(p.work).last

\* an inbound text message of an individual chat, with an external identifier
PlainInbound(m) ==
  /\ ~m.fromMe /\ ~IsGroupJid(m.jid) /\ Truthy(m.id)
  /\ m.body.given /\ Truthy(m.body.conversation)

\* C16: the delivery of one inbound text message of an unknown individual remote
\* identifier with an unstored external identifier ends having created exactly one
\* individual contact, one open conversation of it and one incoming message with
\* the text and the identifier, and nothing else.
C16_FirstInboundCreatesOneOfEach ==
  [][\A s \in Slots :
       /\ Steps(s) /\ procs[s].kind = "upsert" /\ procs'[s].pc = "done"
       /\ PlainInbound(procs[s].req)
       => /\ procs[s].pc = "wh_bump"
          /\ Len(contacts') = 1 /\ Len(conversations') = 1 /\ Len(messages') = 1
          /\ contacts'[1].inbox = 1 /\ contacts'[1].jid = procs[s].req.jid
          /\ contacts'[1].type = "individual"
          /\ conversations'[1].inbox = 1 /\ conversations'[1].contact = 1
          /\ conversations'[1].status = "open"
          /\ messages'[1].conv = 1 /\ messages'[1].direction = "incoming"
          /\ messages'[1].content = procs[s].req.body.conversation
          /\ messages'[1].evoId = procs[s].req.id
          /\ inboxes' = inboxes]_vars

\* the delivery of the text "hi" under the identifier M1 has been reconciled
C16_Witness ==
  /\ \E s \in Slots : procs[s].kind = "upsert" /\ procs[s].pc = "done"
  /\ Len(contacts) = 1 /\ contacts[1].type = "individual" /\ contacts[1].jid = IndJid
  /\ Len(conversations) = 1 /\ conversations[1].status = "open"
  /\ Len(messages) = 1 /\ messages[1].content = "hi" /\ messages[1].evoId = "M1"
  /\ messages[1].direction = "incoming"

\* C17: a reconciler stores a message under the provider's epoch seconds converted
\* to an instant, or under the processing instant when there are none, and after
\* the insert sets the conversation's activity timestamp to that message timestamp.
C17_BumpToMessageTimestamp ==
  [][\A s \in Slots :
       /\ Inserts(s)
            => LastRow(messages').created_at =
                 IF Reconciled(procs[s]).ts # None
                 THEN FromEpochSeconds(Reconciled(procs[s]).ts) ELSE Now
       /\ Steps(s) /\ procs[s].pc \in {"wh_bump", "sy_msg_bump"} /\ procs[s].ins = "ok"
            => conversations'[procs[s].conv].updated_at = LastRow(messages).created_at]_vars

\* C18: no step of a reconciler adds a message row for a message whose body the
\* content extractor returns no value for.
C18_AbsentContentNotPersisted ==
  [][\A s \in Slots :
       /\ Steps(s) /\ procs[s].pc \in {"wh_msg_ins", "sy_msg_ins"}
       /\ extractMessageContent(Reconciled(procs[s]).body) = Null
       => messages' = messages]_vars

\* no text in the body
NoText(b) == ~Truthy(b.conversation) /\ ~Truthy(b.extendedText)

\* C19: the content stored for a body is its conversation text when that is not
\* empty, whatever typed parts the body carries; else its extended text, whatever
\* media parts it carries; and the caption of an image or a video is used before
\* the bare label of that type.
C19_ExtractionPrecedence ==
  [][\A s \in Slots :
       Inserts(s) /\ procs[s].kind = "upsert"
       => LET b == procs[s].req.body
              content == LastRow(messages').content
          IN /\ Truthy(b.conversation) => content = b.conversation
             /\ ~Truthy(b.conversation) /\ Truthy(b.extendedText)
                  => content = b.extendedText
             /\ NoText(b) /\ b.image.present /\ Truthy(b.image.text)
                  => content = "[Imagem] " \o b.image.text
             /\ NoText(b) /\ ~b.image.present /\ b.video.present /\ Truthy(b.video.text)
                  => content = "[Vídeo] " \o b.video.text]_vars

\* a text stored for a body that also carries a captioned image and other parts
C19_Witness ==
  \E s \in Slots :
    /\ procs[s].pc = "wh_bump" /\ procs[s].ins = "ok"
    /\ procs[s].req.body.conversation = "hi"
    /\ procs[s].req.body.image = Part("cap") /\ procs[s].req.body.audio.present
    /\ LastRow(messages).content = "hi"

\* a body with nothing but an image part that has no caption
ImageOnly(b) ==
  /\ b.given /\ NoText(b) /\ b.image.present /\ ~Truthy(b.image.text)
  /\ \A part \in {b.video, b.audio, b.document, b.sticker, b.contact, b.location} :
       ~part.present

\* C20 as stated: the content of an image without caption is the string "[Image]".
C20_ImageLabelEnglish ==
  [][\A s \in Slots :
       Inserts(s) /\ procs[s].kind = "upsert" /\ ImageOnly(procs[s].req.body)
       => LastRow(messages').content = "[Image]"]_vars

\* C20: the content stored for a body that carries only an image part without
\* caption is exactly the string "[Imagem]".
C20_ImageLabel ==
  [][\A s \in Slots :
       Inserts(s) /\ procs[s].kind = "upsert" /\ ImageOnly(procs[s].req.body)
       => LastRow(messages').content = "[Imagem]"]_vars

C20_Witness ==
  \E s \in Slots :
    /\ procs[s].pc = "wh_bump" /\ procs[s].ins = "ok"
    /\ ImageOnly(procs[s].req.body)
    /\ LastRow(messages).content = "[Imagem]"

(* a sync pass that runs alone *)

\* the last step of a sync pass: the write of the counters
SyncCompletes(s) ==
  procs[s].kind = "sync" /\ procs[s].pc = "sy_write" /\ procs'[s].pc = "done"

\* the precondition of a sync does not hold for the inbox
NotSyncable(inbox) == inbox.status # "connected" \/ inbox.instance \in {Null, ""}

\* C21: a sync request for an inbox that is not connected, or that has no
\* instance name, ends with status 400 before any snapshot is fetched and
\* leaves contacts, conversations, messages and inboxes as they were.
C21_SyncPrecondition ==
  [][\A s \in Slots :
       /\ Steps(s) /\ procs[s].kind = "sync" /\ procs[s].pc \in {"sy_inbox", "sy_fetch"}
       /\ NotSyncable(inboxes[procs[s].req.inbox])
       => /\ procs[s].pc = "sy_inbox"
          /\ procs'[s].pc = "done" /\ procs'[s].resp = 400
          /\ procs'[s].snap = NoSnap /\ procs'[s].created = Idle.created
          /\ store' = store]_vars

\* a sync was refused and the store is as seeded
C21_Witness ==
  \E s \in Slots :
    /\ procs[s].kind = "sync" /\ procs[s].pc = "done" /\ procs[s].resp = 400
    /\ contacts = SeededContacts /\ inboxes = SeededInboxes

\* the identifiers of the entries the loops take from the results that loaded
TakenFrom(result, keep(_)) ==
  IF result.ok
  THEN {result.list[i].jid : i \in {k \in DOMAIN result.list : keep(result.list[k].jid)}}
  ELSE {}

FirstChats(result) ==
  IF result.ok THEN [result EXCEPT !.list = Prefix(@, ChatLimit)] ELSE result

ProcessedJids(r) ==
  TakenFrom(r.contacts, LAMBDA j : j \notin {Null, ""} /\ j # GrpJid)
    \cup TakenFrom(r.groups, LAMBDA j : j = GrpJid)
    \cup TakenFrom(FirstChats(r.chats), LAMBDA j : j \notin {Null, ""})

SomeFetchFailed(r) == ~r.contacts.ok \/ ~r.groups.ok \/ ~r.chats.ok

InboxRows(table, inbox) == {i \in DOMAIN table : table[i].inbox = inbox}

\* C22: when any of the three snapshot fetches fails, the sync does not end at
\* the fetch; it ends with status 200, after it stored a contact for every entry
\* it takes from the snapshots that loaded and wrote the recomputed counters.
C22_FailedFetchIsEmptyList ==
  [][\A s \in Slots :
       /\ (Steps(s) /\ procs[s].pc = "sy_fetch" => procs'[s].pc # "done")
       /\ (SyncCompletes(s) /\ SomeFetchFailed(procs[s].snap)
            => /\ procs'[s].resp = 200
               /\ \A j \in ProcessedJids(procs[s].snap) :
                    \E c \in DOMAIN contacts' :
                      contacts'[c].inbox = procs[s].inbox /\ contacts'[c].jid = j
               /\ inboxes'[procs[s].inbox].contacts_count =
                    Cardinality(InboxRows(contacts', procs[s].inbox))
               /\ inboxes'[procs[s].inbox].conversations_count =
                    Cardinality(InboxRows(conversations', procs[s].inbox)))]_vars

\* the groups fetch failed and the contact of the contacts snapshot is stored
C22_Witness ==
  \E s \in Slots :
    /\ procs[s].kind = "sync" /\ procs[s].pc = "done" /\ procs[s].resp = 200
    /\ ~procs[s].snap.groups.ok /\ procs[s].snap.contacts.ok /\ procs[s].snap.chats.ok
    /\ Len(procs[s].snap.contacts.list) = MaxSyncSnap
    /\ \E c \in DOMAIN contacts : contacts[c].inbox = 1 /\ contacts[c].jid = IndJid2

\* C23: when a sync pass that runs alone completes, the contact count stored on
\* the inbox is the number of contact rows of the inbox, and the conversation
\* count stored on it is the number of its conversation rows.
C23_CountsMatchRows ==
  [][\A s \in Slots :
       SyncCompletes(s)
       => /\ inboxes'[procs[s].inbox].contacts_count =
               Cardinality(InboxRows(contacts', procs[s].inbox))
          /\ inboxes'[procs[s].inbox].conversations_count =
               Cardinality(InboxRows(conversations', procs[s].inbox))]_vars

\* the counters of inbox 1 after a sync that created rows, beside another inbox's rows
C23_Witness ==
  \E s \in Slots :
    /\ procs[s].kind = "sync" /\ procs[s].pc = "done" /\ procs[s].resp = 200
    /\ procs[s].created.contacts > 0
    /\ inboxes[1].contacts_count = Cardinality(InboxRows(contacts, 1))
    /\ inboxes[1].contacts_count < Len(contacts)
    /\ inboxes[1].conversations_count = Cardinality(InboxRows(conversations, 1))

\* the identifiers stored for the inbox before the sync
SeededJids(inbox) == {SeededContacts[i].jid : i \in InboxRows(SeededContacts, inbox)}

NewJids(p) == ProcessedJids(p.snap) \ SeededJids(p.inbox)

\* C24: a sync pass that runs alone adds to the inbox exactly one contact row per
\* distinct identifier of the entries it takes that was not stored for the inbox
\* before; it reports that number as contacts created; afterwards every
\* identifier of an entry it took has a contact with exactly one conversation.
C24_ContactsGrowByNewIdentifiers ==
  [][\A s \in Slots :
       SyncCompletes(s)
       => LET p == procs[s]
          IN /\ Cardinality(InboxRows(contacts', p.inbox)) =
                  Cardinality(InboxRows(SeededContacts, p.inbox)) + Cardinality(NewJids(p))
             /\ procs'[s].created.contacts = Cardinality(NewJids(p))
             /\ \A j \in ProcessedJids(p.snap) :
                  \E c \in InboxRows(contacts', p.inbox) :
                    /\ contacts'[c].jid = j
                    /\ Cardinality({v \in InboxRows(conversations', p.inbox) :
                                      conversations'[v].contact = c}) = 1]_vars

\* two contacts, one group and three chats, one chat and one contact entry on the
\* identifier that was stored before: two contacts were created
C24_Witness ==
  \E s \in Slots :
    /\ procs[s].kind = "sync" /\ procs[s].pc = "done" /\ procs[s].resp = 200
    /\ Len(procs[s].snap.contacts.list) = 2 /\ Len(procs[s].snap.groups.list) = 1
    /\ procs[s].snap.chats.list = ThreeChats
    /\ procs[s].snap.contacts.list[1].jid = IndJid
    /\ procs[s].created.contacts = 2 /\ procs[s].created.conversations = 2
    /\ Cardinality(InboxRows(contacts, 1)) = 3

\* the identifiers only chat entries after the first ChatLimit carry
BeyondLimit(r) ==
  IF r.chats.ok
  THEN {r.chats.list[i].jid : i \in {k \in DOMAIN r.chats.list : k > ChatLimit}}
         \ ProcessedJids(r)
  ELSE {}

\* C25: the chats-processed and messages-inserted counters of a sync never
\* exceed 100, a sync inserts at most 100 messages, and an identifier that only
\* chat entries after the 100th carry gets no contact.
C25_FirstHundredChats ==
  [][\A s \in Slots :
       /\ procs'[s].chats <= ChatLimit /\ procs'[s].inserted <= ChatLimit
       /\ (SyncCompletes(s)
            => /\ Len(messages') <= 1 + ChatLimit
               /\ \A j \in BeyondLimit(procs[s].snap) \ SeededJids(procs[s].inbox) :
                    \A c \in InboxRows(contacts', procs[s].inbox) : contacts'[c].jid # j)]_vars

\* a sync of one chat more than the limit processed exactly the limit
C25_Witness ==
  \E s \in Slots :
    /\ procs[s].kind = "sync" /\ procs[s].pc = "done" /\ procs[s].resp = 200
    /\ Len(procs[s].snap.chats.list) = ChatLimit + 1
    /\ procs[s].chats = ChatLimit /\ procs[s].inserted = ChatLimit
    /\ \A c \in InboxRows(contacts, 1) : contacts[c].jid # IndJid2

(* the resolvers *)

\* the display-name hint the resolver of a request was given
Hint(p) == IF p.kind = "upsert" THEN p.req.pushName ELSE Head(p.work).hint

\* C29: a resolver that finds the contact changes its stored name only when it
\* was given a non-empty hint that differs from the stored name, on the webhook
\* path and on the sync path.
C29_NameChangesOnlyOnDifferingHint ==
  [][\A s \in Slots :
       Steps(s) /\ procs[s].pc \in {"wh_contact_upd", "sy_contact_upd"}
       => \A c \in DOMAIN contacts :
            contacts'[c].name # contacts[c].name
            => Hint(procs[s]) \notin {Null, ""} /\ Hint(procs[s]) # contacts[c].name]_vars

\* C30: a contact has kind group exactly when its remote identifier carries the
\* group suffix; an entry of the contacts snapshot writes no contact on an
\* identifier with the suffix, an entry of the groups snapshot none without it.
C30_KindFollowsSuffix ==
  [][/\ \A c \in DOMAIN contacts' : contacts'[c].type = "group" <=> IsGroupJid(contacts'[c].jid)
     /\ \A s \in Slots :
          Steps(s) /\ procs[s].kind = "sync" /\ contacts' # contacts
          => /\ Head(procs[s].work).src = "contact" => ~IsGroupJid(Head(procs[s].work).jid)
             /\ Head(procs[s].work).src = "group" => IsGroupJid(Head(procs[s].work).jid)]_vars

\* a group contact and an individual contact are stored after a sync
C30_Witness ==
  /\ \E c \in DOMAIN contacts : contacts[c].type = "group" /\ contacts[c].jid = GrpJid
  /\ \E c \in DOMAIN contacts : contacts[c].type = "individual" /\ contacts[c].jid = IndJid
  /\ \E s \in Slots :
       procs[s].kind = "sync" /\ procs[s].pc = "done" /\ procs[s].created.contacts > 0

(* events that lack an identifying field *)

\* C27: a message event without remote identifier writes no contact, no
\* conversation and no message, and its delivery does not end in an error.
C27_MissingIdentifierDropped ==
  [][\A s \in Slots :
       Steps(s) /\ procs[s].kind = "upsert" /\ procs[s].req.jid = Null
       => /\ contacts' = contacts /\ conversations' = conversations /\ messages' = messages
          /\ procs'[s].resp \in {0, 200}]_vars

(* channel management *)

\* C26: a channel creation that ends in a failure leaves neither the provider
\* instance it created nor an inbox row that names it; this covers the creation
\* whose webhook registration fails.
C26_FailedCreationLeavesNothing ==
  [][\A s \in Slots :
       /\ Steps(s) /\ procs[s].kind = "create"
       /\ procs'[s].pc = "done" /\ procs'[s].resp >= 400
       => /\ procs[s].req.name \notin instances'
          /\ \A i \in DOMAIN inboxes' : inboxes'[i].instance # procs[s].req.name]_vars

\* C28: in every reachable state the connection status of every inbox is one of
\* pending, connected, disconnected.
C28_StatusInEnum ==
  \A i \in DOMAIN inboxes : inboxes[i].status \in {"pending", "connected", "disconnected"}

(* ------------------ delivery status of a dispatched message ------------------ *)

MaxStatusOps == 3

CanStartStatus == started < MaxStatusOps /\ \E s \in Slots : ~Active(s)

InitStatus == Conversing /\ Fresh /\ NoSecret

\* sends and the status events of the identifiers the provider issued, overlapping
NextStatus ==
  \/ SendRequest(CanStartStatus)
  \/ StatusEvent(CanStartStatus, IssuedIds)
  \/ \E s \in Slots : sendMessage(s)
  \/ \E s \in Slots : handleMessagesUpdate(s)

SpecStatus == InitStatus /\ [][NextStatus]_vars

\* the order of the delivery statuses of a message
StatusRank(status) ==
  CASE status = "sending" -> 0
    [] status = "sent" -> 1
    [] status = "delivered" -> 2
    [] status = "read" -> 3
    [] OTHER -> 0

\* C34: the delivery status of a message never regresses: once a status event
\* set it, a later-processed event for the same external identifier does not
\* set it back (read stays read when a delivery ack follows), and an event whose
\* token is neither a delivery nor a read token leaves the status as it is.
C34_StatusNeverRegresses ==
  [][\A s \in Slots :
       Steps(s) /\ procs[s].kind = "status"
       => \A i \in Ids(messages) :
            /\ StatusRank(messages'[i].status) >= StatusRank(messages[i].status)
            /\ procs[s].req.status \notin {"DELIVERY_ACK", "READ", "PLAYED"}
               => messages'[i].status = messages[i].status]_vars

(* ------------------------- the QR payload of an inbox ------------------------ *)

\* C35: an inbox whose connection status is connected has no stored QR payload:
\* no QR event or QR fetch that arrives after the transition into connected
\* stores a payload on a connected inbox.
C35_ConnectedHasNoQr ==
  \A i \in DOMAIN inboxes : inboxes[i].status = "connected" => inboxes[i].qr = Null

(* ---------------------- overlapping connection events ----------------------- *)

\* the second slot is taken only while the first one is busy, so with two
\* deliveries in all the request of the second slot was delivered after the
\* request of the first
DeliveredInOrder == started = 2 /\ procs[1].kind = "conn" /\ procs[2].kind = "conn"

\* C36: when connection events of one inbox are handled concurrently, the status
\* stored after all handlers finished is the one of the event delivered last: a
\* handler of the earlier event that finishes after the handler of the later
\* one (a live-session handler that waited for the profile fetch, for instance)
\* does not change the status the later event wrote.
C36_LastDeliveredWins ==
  [][DeliveredInOrder /\ procs[2].pc = "done" /\ Steps(1) /\ procs'[1].pc = "done"
     => \A i \in DOMAIN inboxes : inboxes'[i].status = inboxes[i].status]_vars

(* ------------------------------- reconnect ---------------------------------- *)

\* C40: after a reconnect request ends, answered with success or with a failure
\* (no replacement instance could be created, or its webhook registration
\* failed), the provider instance name of the inbox refers to an instance that
\* this service has not deleted.
C40_InstanceNotDeleted ==
  [][\A s \in Slots :
       /\ Steps(s) /\ procs[s].kind = "reconnect" /\ procs'[s].pc = "done"
       /\ procs[s].inbox \in DOMAIN inboxes
       => \/ ~Truthy(inboxes'[procs[s].inbox].instance)
          \/ inboxes'[procs[s].inbox].instance \in instances']_vars

(* ----------------------- the echo of an outbound message -------------------- *)

\* C32: an outbound message is stored exactly once although the provider echoes
\* it: the delivery of the echo (a message event marked as sent by the channel
\* that carries the identifier the send call returned) adds no message row,
\* whether it is handled before or after the dispatcher stored the identifier
\* on its own row, and no issued identifier is carried by two rows.
C32_EchoStoredOnce ==
  /\ [][\A s \in Slots :
          /\ Steps(s) /\ procs[s].kind = "upsert"
          /\ procs[s].req.fromMe /\ procs[s].req.id \in {e.id : e \in provider}
          => Len(messages') = Len(messages)]_vars
  /\ [](\A e \in provider : Cardinality({i \in Ids(messages) : messages[i].evoId = e.id}) <= 1)

(* --------------------- the end of the status sending ------------------------ *)

\* every await of a handler returns: the store answers, and so does the provider
\* (sendText resolves with a result on every path)
SpecSendFair ==
  /\ SpecSend
  /\ \A s \in Slots :
       /\ WF_vars(sendMessage(s))
       /\ WF_vars(handleMessagesUpsert(s))
       /\ WF_vars(handleConnectionUpdate(s))
       /\ WF_vars(handleMessagesUpdate(s))

\* C37: every message row the dispatcher inserted with status sending
\* eventually has status sent or failed, whatever webhook deliveries are
\* interleaved with the send.
C37_SendingResolves ==
  \A i \in 1..(1 + MaxSendOps) :
    (i \in Ids(messages) /\ messages[i].status = "sending")
      ~> (i \in Ids(messages) /\ messages[i].status \in {"sent", "failed"})

(* -------------------- the last-activity timestamp --------------------------- *)

\* C33: the last-activity timestamp of a conversation never decreases: no
\* message event of the webhook, no pass of the bulk sync (with the last
\* message of a chat or with the last-activity field of the chat) and no send
\* replaces it with an earlier instant. Stated for stored instants that are
\* not ahead of the wall clock of the service.
C33_ActivityNeverDecreases ==
  [][\A c \in Ids(conversations) :
       conversations[c].updated_at <= Now
       => conversations'[c].updated_at >= conversations[c].updated_at]_vars

(* ------------------ the inserted counter of a bulk sync --------------------- *)

\* C38: the messages-inserted counter a bulk sync returns is the number of
\* message rows this sync added: the counter grows by one exactly when an
\* insert of this sync stored a row, and not when the store rejected the insert
\* because another delivery stored the same message in between.
C38_InsertedCountsRows ==
  [][\A s \in Slots :
       Steps(s) /\ procs[s].kind = "sync"
       => /\ procs[s].pc = "sy_msg_ins"
             => Len(messages') - Len(messages) = IF procs'[s].ins = "ok" THEN 1 ELSE 0
          /\ procs'[s].inserted - procs[s].inserted =
               IF procs[s].pc = "sy_msg_bump" /\ procs[s].ins = "ok" THEN 1 ELSE 0]_vars

(* --------------------- a bulk sync run a second time ------------------------ *)

\* the snapshots the provider returns to every sync of the behaviour: a contact,
\* a group, and three chats, the last of which has a last message without
\* external identifier
SameSnapshots ==
  [contacts |-> Fetched(<<SnapEntry(IndJid, "Ana", NoReq, None)>>),
   groups |-> Fetched(<<SnapEntry(GrpJid, "Grupo", NoReq, None)>>),
   chats |-> Fetched(<<
     SnapEntry(IndJid, "Ana",
               UpsertMsg(Instance1, IndJid, FALSE, "M1", TextBody("hi"), Null, 1, Null), None),
     SnapEntry(IndJid2, "Bia", NoReq, 2),
     SnapEntry(GrpJid, "Grupo",
               UpsertMsg(Instance1, GrpJid, FALSE, Null, TextBody("hi"), Null, 1, Null), None)>>)]

InitResync == Paired /\ Fresh /\ NoSecret

\* syncs of the one inbox, one after the other, against the same snapshots
NextResync ==
  \/ SyncRequest(CanStartAlone)
  \/ \E s \in Slots : SyInbox(s)
  \/ \E s \in Slots : SyFetchResults(s, {SameSnapshots})
  \/ \E s \in Slots : SyContactSel(s)
  \/ \E s \in Slots : SyContactUpd(s)
  \/ \E s \in Slots : SyContactIns(s)
  \/ \E s \in Slots : SyConvSel(s)
  \/ \E s \in Slots : SyConvIns(s)
  \/ \E s \in Slots : SyMsgSel(s)
  \/ \E s \in Slots : SyMsgIns(s)
  \/ \E s \in Slots : SyMsgBump(s)
  \/ \E s \in Slots : SyConvTs(s)
  \/ \E s \in Slots : SyCountConv(s)
  \/ \E s \in Slots : SyCountContact(s)
  \/ \E s \in Slots : SyWrite(s)
  \/ Tick

SpecResync == InitResync /\ [][NextResync]_vars

\* C39: a bulk sync is idempotent: the second sync against the same snapshots,
\* with nothing in between, stores no contact, no conversation and no message
\* (its three counters are 0) and leaves the stored contacts, conversations and
\* messages as they were, also for a chat whose last message has no external
\* identifier.
C39_SecondSyncChangesNothing ==
  [][\A s \in Slots :
       started = 2 /\ Steps(s) /\ procs[s].kind = "sync"
       => /\ contacts' = contacts /\ conversations' = conversations /\ messages' = messages
          /\ procs'[s].created.contacts = 0 /\ procs'[s].created.conversations = 0
          /\ procs'[s].inserted = 0]_vars

(* ------------------- the participant of a group message --------------------- *)

\* the member of a group who wrote a message: key.participant
MemberJid == "551177777777@s.whatsapp.net"

\* message events that carry a participant, on an individual chat and on a group
GroupDeliveries ==
  {UpsertMsg(Instance1, j, FALSE, i, TextBody("hi"), n, 1, MemberJid) :
     j \in JIDs, i \in {"M1", Null}, n \in {Null, "Bia"}}

\* chats whose last message carries a participant, and a chat without last message
GroupSnapshots ==
  [contacts : {<<>>}, groups : {<<>>},
   chats : SeqsUpTo({SnapEntry(j, Null,
                               UpsertMsg(Instance1, j, FALSE, "M1", TextBody("hi"), Null, 1, MemberJid),
                               None) : j \in JIDs}
                      \cup {SnapEntry(IndJid, Null, NoReq, 2)}, MaxSnap)]

InitGroup == Paired /\ Fresh /\ NoSecret

\* deliveries, syncs and sends, one request at a time
NextGroup ==
  \/ WebhookDelivery(CanStartAlone, GroupDeliveries)
  \/ SyncRequest(CanStartAlone)
  \/ SendRequest(CanStartAlone)
  \/ \E s \in Slots : handleMessagesUpsert(s)
  \/ \E s \in Slots : syncInbox(s, GroupSnapshots)
  \/ \E s \in Slots : sendMessage(s)

SpecGroup == InitGroup /\ [][NextGroup]_vars

\* the kind of the contact a message row belongs to, through its conversation
KindOfRow(i) == contacts[conversations[messages[i].conv].contact].type

\* C31: a message row carries a participant identifier only if the contact of
\* its conversation is of kind group; rows of individual conversations carry
\* none, and neither does a row the send route inserts.
C31_ParticipantOnlyInGroups ==
  /\ [](\A i \in Ids(messages) : messages[i].participant # Null => KindOfRow(i) = "group")
  /\ [][\A s \in Slots :
          Steps(s) /\ procs[s].kind = "send" /\ Len(messages') > Len(messages)
          => messages'[Len(messages')].participant = Null]_vars

\* a group message stored with its participant beside a message of an
\* individual chat, whose event carried a participant too, stored without
C31_Witness ==
  /\ \E i \in Ids(messages) : messages[i].participant = MemberJid /\ KindOfRow(i) = "group"
  /\ \E i \in Ids(messages) :
       /\ messages[i].participant = Null /\ KindOfRow(i) = "individual"
       /\ messages[i].direction = "incoming"

====
